---- MODULE Spec2Model ----
(***************************************************************************)
(* Model of the DinoCore production flasher: the device-processing worker  *)
(* (process_device_thread with burn_efuse, read_efuse_version and          *)
(* flash_device), the serial monitor, the port scanner and the lifecycle   *)
(* controller of FlasherApp (toy ID prompt, connection prompt, detector    *)
(* threads, Bluetooth QC session, inventory report, retry, new device).    *)
(*                                                                         *)
(* Strings that the code parses or formats (hardware versions) are         *)
(* sequences of one-character strings, so that parsing and formatting are  *)
(* computed and not assumed.  Opaque strings (ports, toy IDs, MACs, log    *)
(* lines) are TLA+ strings.                                                *)
(***************************************************************************)
EXTENDS Integers, Sequences, FiniteSets, TLC

\* ------------------------------------------------------------------------
\* Bounds of the model (not program constants)
\* ------------------------------------------------------------------------
\* process_device_thread runs that exist at the same time.
MaxWorkers == 2
\* device_detector_worker threads that exist at the same time.
MaxDetectors == 2
\* Bluetooth QC sessions that exist at the same time.
MaxQC == 2
\* Device sessions the operator works through in one run of the application.
MaxSessions == 2
\* Capture events the monitored devices emit in one run of the application.
MaxCaptures == 2
\* Scans of the port enumeration that one run of the scan bench records.
MaxScans == 2
\* Output lines of the flashing subprocess that one flash_device call reads.
MaxLines == 2
\* Lines one serial monitor reads from its device.
MaxMonitorLines == 4

MaxDevices == 2

MaxResults == 2

MaxMessages == 3

MaxRuns == 3
MaxApiCalls == 2

\* ------------------------------------------------------------------------
\* Values
\* ------------------------------------------------------------------------
\* Python's None where a string is expected (distinct from every string,
\* the empty string included).
NoneStr == <<"None">>

\* Python's None where a tuple of integers is expected.
NoneTuple == <<>>

\* Python truthiness of an optional string: None and "" are falsy.
Truthy(s) == s # NoneStr /\ s # <<>>

NoPort == "NoPort"

Ports == {"COM3", "COM4"}

PortIndex(p) == IF p = "COM3" THEN 1 ELSE 2

FirstPort == "COM3"

Modes == {"testing", "production", "other"}

\* The hardware version strings handed to the worker: "1.9.1" is the default
\* the controller sets; the others exercise the parse and range paths.
V191 == <<"1", ".", "9", ".", "1">>
V192 == <<"1", ".", "9", ".", "2">>
V000 == <<"0", ".", "0", ".", "0">>
V19 == <<"1", ".", "9">>
V1x1 == <<"1", ".", "x", ".", "1">>
V256 == <<"2", "5", "6", ".", "0", ".", "1">>
VEmpty == <<>>

TargetVersions == {V191, V000, V19, V1x1, V256, VEmpty}

\* ------------------------------------------------------------------------
\* utils/helpers.py: parse_version, and the formatting of read_efuse_version
\* ------------------------------------------------------------------------
DigitChars == <<"0", "1", "2", "3", "4", "5", "6", "7", "8", "9">>

IsDigit(c) == \E i \in 1..10 : DigitChars[i] = c

DigitVal(c) == (CHOOSE i \in 1..10 : DigitChars[i] = c) - 1

\* str.split('.'): the segments between the dots; "" splits into [""].
RECURSIVE SplitDots(_, _, _)
SplitDots(s, i, cur) ==
    IF i > Len(s) THEN <<cur>>
    ELSE IF s[i] = "." THEN <<cur>> \o SplitDots(s, i + 1, <<>>)
    ELSE SplitDots(s, i + 1, Append(cur, s[i]))

\* int(segment) succeeds on a non-empty run of decimal digits, optionally
\* signed; anything else raises ValueError.
IntOk(seg) ==
    LET body == IF Len(seg) > 0 /\ seg[1] \in {"-", "+"} THEN Tail(seg) ELSE seg
    IN  Len(body) > 0 /\ \A i \in 1..Len(body) : IsDigit(body[i])

RECURSIVE DigitsVal(_, _)
DigitsVal(body, acc) ==
    IF body = <<>> THEN acc ELSE DigitsVal(Tail(body), 10 * acc + DigitVal(Head(body)))

IntVal(seg) ==
    IF seg[1] = "-" THEN 0 - DigitsVal(Tail(seg), 0)
    ELSE IF seg[1] = "+" THEN DigitsVal(Tail(seg), 0)
    ELSE DigitsVal(seg, 0)

parse_version(version_string) ==
    LET parts == SplitDots(version_string, 1, <<>>)
    IN  IF Len(parts) # 3 THEN NoneTuple
        ELSE IF \E i \in 1..3 : ~IntOk(parts[i]) THEN NoneTuple
        ELSE <<IntVal(parts[1]), IntVal(parts[2]), IntVal(parts[3])>>

\* str(n) for n >= 0, as the f-string of read_efuse_version produces it.
RECURSIVE IntToStr(_)
IntToStr(n) ==
    IF n < 10 THEN <<DigitChars[n + 1]>>
    ELSE IntToStr(n \div 10) \o <<DigitChars[(n % 10) + 1]>>

FormatVersion(major, minor, patch) ==
    IntToStr(major) \o <<".">> \o IntToStr(minor) \o <<".">> \o IntToStr(patch)

\* ------------------------------------------------------------------------
\* business_logic/firmware.py
\* ------------------------------------------------------------------------
\* What the espefuse burn subprocess (and the temp file I/O around it) can do.
BurnToolOutcomes == {"rc0", "rc_nonzero", "oserror"}

\* burn_efuse(log_queue, port, version) against one outcome of the tool:
\* "true", "false", or "raise" (an exception leaves burn_efuse).
burn_efuse(version, tool) ==
    LET version_parts == parse_version(version)
    IN  IF version_parts = NoneTuple THEN "false"
        ELSE IF \E i \in 1..3 : version_parts[i] < 0 \/ version_parts[i] > 255
             THEN "raise"
        ELSE IF tool = "oserror" THEN "raise"
        ELSE IF tool = "rc_nonzero" THEN "false"
        ELSE "true"

\* TRUE iff burn_efuse reaches the espefuse burn_block_data subprocess.
burn_efuse_runs_tool(version, tool) ==
    LET version_parts == parse_version(version)
    IN  /\ version_parts # NoneTuple
        /\ \A i \in 1..3 : version_parts[i] >= 0 /\ version_parts[i] <= 255
        /\ tool # "oserror"

\* The first three bytes of the 32-byte buffer that burn_efuse writes to the
\* temp file and espefuse burns into BLOCK3.
efuse_buffer_Reversed(version_parts) == <<version_parts[3], version_parts[2], version_parts[1]>>

efuse_buffer(version_parts) == <<version_parts[1], version_parts[2], version_parts[3]>>

\* Hexadecimal digits, as espefuse prints them and as int(text, 16) and the
\* case-insensitive pattern of read_efuse_version accept them.
HexChars == <<"0", "1", "2", "3", "4", "5", "6", "7", "8", "9", "a", "b", "c", "d", "e", "f">>

HexCharsUpper == <<"0", "1", "2", "3", "4", "5", "6", "7", "8", "9", "A", "B", "C", "D", "E", "F">>

IsHexDigit(c) == \E i \in 1..16 : HexChars[i] = c \/ HexCharsUpper[i] = c

HexDigitVal(c) == (CHOOSE i \in 1..16 : HexChars[i] = c \/ HexCharsUpper[i] = c) - 1

\* int(text, 16) of a group of two hexadecimal digits.
HexPairVal(text) == 16 * HexDigitVal(text[1]) + HexDigitVal(text[2])

\* One byte of a block in the summary espefuse prints: two hex digits.
HexByte(n) == <<HexChars[(n \div 16) + 1], HexChars[(n % 16) + 1]>>

\* What the espefuse summary subprocess can produce: a non-zero exit, a
\* timeout, an OSError, or exit code 0 with the text of stdout.  Of stdout
\* the model keeps the byte groups that follow "BLOCK_USR_DATA (BLOCK3) ... =",
\* none when the text has no such line.
SummaryFailures == {"rc_nonzero", "timeout", "oserror"}

SummaryError == [kind |-> "rc_nonzero", groups |-> <<>>]

SummaryNoBlock == [kind |-> "exit0", groups |-> <<>>]

\* The summary of a device whose BLOCK3 starts with the given bytes.
SummaryOfBlock(bytes) ==
    [kind |-> "exit0", groups |-> <<HexByte(bytes[1]), HexByte(bytes[2]), HexByte(bytes[3])>>]

SummaryOutcomes ==
    { [kind |-> k, groups |-> <<>>] : k \in SummaryFailures }
    \cup { SummaryNoBlock,
           SummaryOfBlock(<<0, 0, 0>>),
           SummaryOfBlock(<<1, 9, 1>>),
           SummaryOfBlock(<<1, 9, 2>>) }

\* re.search of line 99 on stdout: three groups of two hex digits.
SummaryMatches(groups) ==
    /\ Len(groups) >= 3
    /\ \A i \in 1..3 : Len(groups[i]) = 2 /\ IsHexDigit(groups[i][1]) /\ IsHexDigit(groups[i][2])

\* read_efuse_version returning "0.0.0" for an empty block.
read_efuse_version_KeepsZero(summary) ==
    IF summary.kind \in SummaryFailures THEN NoneStr
    ELSE IF SummaryMatches(summary.groups)
         THEN FormatVersion(HexPairVal(summary.groups[1]), HexPairVal(summary.groups[2]),
                            HexPairVal(summary.groups[3]))
    ELSE NoneStr

read_efuse_version(summary) ==
    IF summary.kind = "rc_nonzero" THEN NoneStr
    ELSE IF summary.kind \in {"timeout", "oserror"} THEN NoneStr
    ELSE IF SummaryMatches(summary.groups)
         THEN LET major == HexPairVal(summary.groups[1])
                  minor == HexPairVal(summary.groups[2])
                  patch == HexPairVal(summary.groups[3])
              IN  IF major = 0 /\ minor = 0 /\ patch = 0
                  THEN NoneStr
                  ELSE FormatVersion(major, minor, patch)
    ELSE NoneStr

\* What flash_device can do: return True, return False (download failure,
\* non-zero exit, caught exception) or let an exception of download_firmware
\* other than a RequestException escape.
FlashOutcomes == {"true", "false", "raise"}

\* ------------------------------------------------------------------------
\* State
\* ------------------------------------------------------------------------
VARIABLES
    attached,            \* OS port enumeration: ports with hwid 303A:1001
    esp32_port,          \* FlasherApp.esp32_port
    scanner_stop_event,  \* FlasherApp.scanner_stop_event
    detectors,           \* device_detector_worker threads: slot -> record
    workers,             \* process_device_thread runs: worker slot -> run record
    qcs,                 \* bt_qc_thread_wrapper threads: slot -> record
    retry,               \* the retry_thread of retry_api_transmission
    timers,              \* pending root.after callbacks
    ui,                  \* widgets the handlers read or that enable a handler
    app,                 \* FlasherApp session fields
    hist,                \* history of the current device session (observation only)
    calls                \* calls of the functions examined on their own, with results

vars == <<attached, esp32_port, scanner_stop_event, detectors, workers, qcs,
          retry, timers, ui, app, hist, calls>>

NotWorkers == <<attached, esp32_port, scanner_stop_event, detectors, qcs, retry, timers, ui, app,
                hist, calls>>

WorkerIds == 1..MaxWorkers

\* A slot in which no process_device_thread has been started.
IdleWorker ==
    [ pc |-> "idle", port |-> NoPort, mode |-> "other",
      target_hw_version |-> VEmpty, skip_efuse_read |-> FALSE,
      flash_hw_version |-> NoneStr,
      burn_calls |-> 0, burn_tool_runs |-> 0, burn_result |-> "none",
      read_results |-> <<>>, flash_calls |-> <<>>,
      success |-> FALSE, error |-> "", log |-> {},
      mac_address |-> "None", device_name |-> "None", session |-> 1 ]

\* The run record of process_device_thread right after the thread started
\* (lines 78-89): parameters, flash_result and flash_hw_version = None.
NewWorker(port, mode, target, skip) ==
    [ IdleWorker EXCEPT !.pc = "start", !.port = port, !.mode = mode,
                        !.target_hw_version = target, !.skip_efuse_read = skip ]

\* The thread of process_device_thread exists and has not returned.
WorkerAlive(w) == workers[w].pc \notin {"idle", "done"}

\* The serial monitor of run w holds its port open (between serial.Serial
\* and ser.close of serial_monitor_thread).
HoldsPort(w) == workers[w].pc = "monitor"

\* The subprocess tools can open the port of run w: it is attached and no
\* serial monitor of another run holds it (a COM port opens exclusively).
PortUsable(w) ==
    /\ workers[w].port \in attached
    /\ \A o \in WorkerIds \ {w} : ~(HoldsPort(o) /\ workers[o].port = workers[w].port)

\* ------------------------------------------------------------------------
\* business_logic/device_detection.py: process_device_thread
\* ------------------------------------------------------------------------
\* Lines 132-149 up to the call of flash_device: with a truthy
\* flash_hw_version the run goes on to flash_device, otherwise it reports
\* "No valid hardware version found" and ends.
ToFlashPhase(r, version) ==
    IF Truthy(version)
    THEN [r EXCEPT !.flash_hw_version = version, !.pc = "flash"]
    ELSE [r EXCEPT !.flash_hw_version = version, !.pc = "done",
                   !.error = "No valid hardware version found",
                   !.log = @ \cup {"NO_VALID_HW_VERSION"}]

\* The 'except Exception' handler of lines 151-156.
Unexpected(r) ==
    [r EXCEPT !.pc = "done", !.error = "exception",
              !.log = @ \cup {"UNEXPECTED_ERROR"}]

\* PDT_Begin with the production branch burning like the testing branch.
PDT_Begin_BurnsInProduction(w) ==
    /\ workers[w].pc = "start"
    /\ LET r == workers[w]
       IN  workers' = [workers EXCEPT ![w] =
             IF r.mode = "testing" \/ (r.mode = "production" /\ ~r.skip_efuse_read)
             THEN [r EXCEPT !.pc = "burn"]
             ELSE IF r.mode = "production"
                  THEN ToFlashPhase([r EXCEPT !.log = @ \cup {"SKIP_EFUSE_READ"}],
                                    r.target_hw_version)
             ELSE ToFlashPhase(r, NoneStr)]
    /\ UNCHANGED NotWorkers

\* Lines 88-90, 115-120: the mode branch up to the first external call.
PDT_Begin(w) ==
    /\ workers[w].pc = "start"
    /\ LET r == workers[w]
       IN  workers' = [workers EXCEPT ![w] =
             IF r.mode = "testing" THEN [r EXCEPT !.pc = "burn"]
             ELSE IF r.mode = "production"
                  THEN IF r.skip_efuse_read
                       THEN ToFlashPhase([r EXCEPT !.log = @ \cup {"SKIP_EFUSE_READ"}],
                                         r.target_hw_version)
                       ELSE [r EXCEPT !.pc = "prod_read"]
             ELSE ToFlashPhase(r, NoneStr)]
    /\ UNCHANGED NotWorkers

\* Line 92: burn_efuse, and the branch on its result (lines 93-95, 105-106).
PDT_Burn(w) ==
    /\ workers[w].pc = "burn"
    /\ \E tool \in (IF PortUsable(w) THEN BurnToolOutcomes ELSE {"rc_nonzero", "oserror"}) :
         LET r == workers[w]
             res == burn_efuse(r.target_hw_version, tool)
             r1 == [r EXCEPT !.burn_calls = @ + 1,
                             !.burn_tool_runs = @ + (IF burn_efuse_runs_tool(r.target_hw_version, tool) THEN 1 ELSE 0),
                             !.burn_result = res]
         IN  workers' = [workers EXCEPT ![w] =
               IF res = "true" THEN [r1 EXCEPT !.pc = "verify_read"]
               ELSE IF res = "false" THEN [r1 EXCEPT !.pc = "existing_read"]
               ELSE Unexpected(r1)]
    /\ UNCHANGED NotWorkers

\* PDT_VerifyRead accepting any version read back, not only the target.
PDT_VerifyRead_AnyVersion(w) ==
    /\ workers[w].pc = "verify_read"
    /\ \E summary \in (IF PortUsable(w) THEN SummaryOutcomes ELSE {SummaryError}) :
         LET r == workers[w]
             read_version == read_efuse_version(summary)
             r1 == [r EXCEPT !.read_results = Append(@, read_version)]
         IN  workers' = [workers EXCEPT ![w] =
               IF Truthy(read_version)
               THEN ToFlashPhase([r1 EXCEPT !.log = @ \cup {"VERIFICATION_OK"}],
                                 r.target_hw_version)
               ELSE [r1 EXCEPT !.pc = "done",
                               !.log = @ \cup {"VERIFICATION_FAILED"}]]
    /\ UNCHANGED NotWorkers

\* Lines 96-104: the read-back after a successful burn and its comparison
\* with the target.
PDT_VerifyRead(w) ==
    /\ workers[w].pc = "verify_read"
    /\ \E summary \in (IF PortUsable(w) THEN SummaryOutcomes ELSE {SummaryError}) :
         LET r == workers[w]
             read_version == read_efuse_version(summary)
             r1 == [r EXCEPT !.read_results = Append(@, read_version)]
         IN  workers' = [workers EXCEPT ![w] =
               IF read_version = r.target_hw_version
               THEN ToFlashPhase([r1 EXCEPT !.log = @ \cup {"VERIFICATION_OK"}],
                                 r.target_hw_version)
               ELSE [r1 EXCEPT !.pc = "done",
                               !.log = @ \cup {"VERIFICATION_FAILED"}]]
    /\ UNCHANGED NotWorkers

\* PDT_ExistingRead flashing for the target instead of the version found.
PDT_ExistingRead_UsesTarget(w) ==
    /\ workers[w].pc = "existing_read"
    /\ \E summary \in (IF PortUsable(w) THEN SummaryOutcomes ELSE {SummaryError}) :
         LET r == workers[w]
             existing_version == read_efuse_version(summary)
             r1 == [r EXCEPT !.read_results = Append(@, existing_version)]
         IN  workers' = [workers EXCEPT ![w] =
               IF Truthy(existing_version)
               THEN ToFlashPhase([r1 EXCEPT !.log = @ \cup {"PROCEED_EXISTING"}],
                                 r.target_hw_version)
               ELSE [r1 EXCEPT !.pc = "done",
                               !.log = @ \cup {"NO_EXISTING_VERSION"}]]
    /\ UNCHANGED NotWorkers

\* Lines 107-114: the read of the existing version after a failed burn.
PDT_ExistingRead(w) ==
    /\ workers[w].pc = "existing_read"
    /\ \E summary \in (IF PortUsable(w) THEN SummaryOutcomes ELSE {SummaryError}) :
         LET r == workers[w]
             existing_version == read_efuse_version(summary)
             r1 == [r EXCEPT !.read_results = Append(@, existing_version)]
         IN  workers' = [workers EXCEPT ![w] =
               IF Truthy(existing_version)
               THEN ToFlashPhase([r1 EXCEPT !.log = @ \cup {"PROCEED_EXISTING"}],
                                 existing_version)
               ELSE [r1 EXCEPT !.pc = "done",
                               !.log = @ \cup {"NO_EXISTING_VERSION"}]]
    /\ UNCHANGED NotWorkers

\* PDT_ProdRead falling back to the target version when nothing is read.
PDT_ProdRead_FallsBackToTarget(w) ==
    /\ workers[w].pc = "prod_read"
    /\ \E summary \in (IF PortUsable(w) THEN SummaryOutcomes ELSE {SummaryError}) :
         LET r == workers[w]
             existing_version == read_efuse_version(summary)
             r1 == [r EXCEPT !.read_results = Append(@, existing_version)]
         IN  workers' = [workers EXCEPT ![w] =
               IF Truthy(existing_version)
               THEN ToFlashPhase([r1 EXCEPT !.log = @ \cup {"FOUND_EFUSE_VERSION"}],
                                 existing_version)
               ELSE ToFlashPhase(r1, r.target_hw_version)]
    /\ UNCHANGED NotWorkers

\* Lines 122-130: the production read.
PDT_ProdRead(w) ==
    /\ workers[w].pc = "prod_read"
    /\ \E summary \in (IF PortUsable(w) THEN SummaryOutcomes ELSE {SummaryError}) :
         LET r == workers[w]
             existing_version == read_efuse_version(summary)
             r1 == [r EXCEPT !.read_results = Append(@, existing_version)]
         IN  workers' = [workers EXCEPT ![w] =
               IF Truthy(existing_version)
               THEN ToFlashPhase([r1 EXCEPT !.log = @ \cup {"FOUND_EFUSE_VERSION"}],
                                 existing_version)
               ELSE [r1 EXCEPT !.pc = "done",
                               !.log = @ \cup {"PRODUCTION_FAILED_RUN_TESTING_FIRST"}]]
    /\ UNCHANGED NotWorkers

\* PDT_Flash going on to the serial monitor whatever flash_device returned.
PDT_Flash_MonitorsAnyway(w) ==
    /\ workers[w].pc = "flash"
    /\ \E outcome \in (IF PortUsable(w) THEN FlashOutcomes ELSE {"false", "raise"}) :
         LET r == workers[w]
             r1 == [r EXCEPT !.flash_calls = Append(@, r.flash_hw_version)]
         IN  workers' = [workers EXCEPT ![w] =
               IF outcome = "true"
               THEN [r1 EXCEPT !.success = TRUE, !.pc = "monitor_open",
                               !.log = @ \cup {"FLASH_OK"}]
               ELSE IF outcome = "false"
               THEN [r1 EXCEPT !.pc = "monitor_open", !.error = "Flash process failed",
                               !.log = @ \cup {"FLASH_FAILED"}]
               ELSE Unexpected(r1)]
    /\ UNCHANGED NotWorkers

\* Lines 134-145: flash_device and the branch on its result.
PDT_Flash(w) ==
    /\ workers[w].pc = "flash"
    /\ \E outcome \in (IF PortUsable(w) THEN FlashOutcomes ELSE {"false", "raise"}) :
         LET r == workers[w]
             r1 == [r EXCEPT !.flash_calls = Append(@, r.flash_hw_version)]
         IN  workers' = [workers EXCEPT ![w] =
               IF outcome = "true"
               THEN [r1 EXCEPT !.success = TRUE, !.pc = "monitor_open",
                               !.log = @ \cup {"FLASH_OK"}]
               ELSE IF outcome = "false"
               THEN [r1 EXCEPT !.pc = "done", !.error = "Flash process failed",
                               !.log = @ \cup {"FLASH_FAILED"}]
               ELSE Unexpected(r1)]
    /\ UNCHANGED NotWorkers

\* ------------------------------------------------------------------------
\* business_logic/device_detection.py: get_esp32_port
\* ------------------------------------------------------------------------
get_esp32_port_FirstOfMany(ports) ==
    IF ports = {} THEN [port |-> NoPort, status |-> "NO_ESP32_FOUND"]
    ELSE [port |-> CHOOSE p \in ports : TRUE, status |-> "ESP32_FOUND"]

get_esp32_port(ports) ==
    IF ports = {} THEN [port |-> NoPort, status |-> "NO_ESP32_FOUND"]
    ELSE IF Cardinality(ports) > 1 THEN [port |-> NoPort, status |-> "MULTIPLE_ESP32_FOUND"]
    ELSE [port |-> CHOOSE p \in ports : TRUE, status |-> "ESP32_FOUND"]

\* ------------------------------------------------------------------------
\* Thread pools
\* ------------------------------------------------------------------------
DetectorIds == 1..MaxDetectors

QcIds == 1..MaxQC

\* port and last_status are the thread's local variables (lines 960, 964):
\* the path its latest poll returned and the status it last acted on.
\* stop_requested records that scanner_stop_event.set() was called while this
\* thread was running.
IdleDetector ==
    [pc |-> "idle", port |-> NoPort, last_status |-> "None", stop_requested |-> FALSE]

\* scanner_stop_event.set() as seen by the detector threads running at that
\* moment.
StopRequested(dets) ==
    [d \in DetectorIds |->
        IF dets[d].pc = "idle" THEN dets[d] ELSE [dets[d] EXCEPT !.stop_requested = TRUE]]

HasFreeDetector == \E d \in DetectorIds : detectors[d].pc = "idle"

\* threading.Thread(target=self.device_detector_worker).start()
SpawnDetector(dets) ==
    LET d == CHOOSE i \in DetectorIds :
                 /\ dets[i].pc = "idle"
                 /\ \A j \in DetectorIds : dets[j].pc = "idle" => i <= j
    IN  [dets EXCEPT ![d] = [IdleDetector EXCEPT !.pc = "init"]]

HasFreeWorker == \E w \in WorkerIds : workers[w].pc = "idle"

FreeWorker == CHOOSE i \in WorkerIds :
                 /\ workers[i].pc = "idle"
                 /\ \A j \in WorkerIds : workers[j].pc = "idle" => i <= j

\* A QC session: its position, its scan attempts and the result
\* notifications it received.  MinimalBluetoothQCTester.connect_device and
\* run_test (business_logic/bluetooth_qc.py 53-68) open no BLE connection and
\* subscribe to nothing, so a session of the application receives none.
IdleQc == [pc |-> "idle", attempt |-> 0, notifications |-> <<>>]

HasFreeQc == \E q \in QcIds : qcs[q].pc = "idle"

FreeQc == CHOOSE i \in QcIds :
                 /\ qcs[i].pc = "idle"
                 /\ \A j \in QcIds : qcs[j].pc = "idle" => i <= j

IdleRetry == [pc |-> "idle"]

\* ------------------------------------------------------------------------
\* Values of the controller
\* ------------------------------------------------------------------------
ToyIds == {"T1", "T2"}

\* The toy ID on the label of the n-th device the operator processes.
ToyOfSession(n) == IF n = 1 THEN "T1" ELSE "T2"

\* The Bluetooth address the device attached at a port prints on its console.
MacOf(port) == IF port = "COM3" THEN "M1" ELSE "M2"

DeviceName == "Dino"

\* src/bluetooth_qc.py: BluetoothQCTester.QC_THRESHOLD
QC_THRESHOLD == 4500

\* business_logic/bluetooth_qc.py: MinimalBluetoothQCTester.get_test_results,
\* the tester FlasherApp hands to BluetoothQCManager.
MinimalBluetoothQCTester_get_test_results ==
    << [name |-> "Microphone Balance Test", status |-> "pass",
        rms_L |-> 4000, rms_R |-> 4100] >>

\* FlasherApp.__init__ (lines 137-147) and create_widgets.
InitApp ==
    [ processed_toy_id |-> "None", physical_id |-> "None",
      captured_ble_name |-> "None", ble_ready_event |-> FALSE,
      api_payload_sent |-> FALSE, hw_version_var |-> VEmpty ]

InitUi ==
    [ toy_id_frame |-> FALSE, connection_frame |-> FALSE,
      flash_new_device_button |-> FALSE, api_error_frame |-> FALSE,
      retry_api_button |-> "none", test_button |-> "disabled",
      test_result_label |-> "WAITING" ]

\* The report of the current device after one more answer of send_to_bondu:
\* "succeeded" once a report has succeeded, else "failed".
ReportOutcome(report, api_success) ==
    IF api_success \/ report = "succeeded" THEN "succeeded" ELSE "failed"

\* What has happened to the device of the current session.
InitHist ==
    [ session |-> 1, captures |-> 0, attempts |-> {}, report |-> "none",
      results |-> <<>>, captured |-> FALSE ]

\* ------------------------------------------------------------------------
\* ui/main_app.py: FlasherApp.set_captured_ble_details (called by the serial
\* monitor on the worker's thread)
\* ------------------------------------------------------------------------
set_captured_ble_details(mac, name) ==
    /\ app' = [app EXCEPT !.physical_id = mac, !.captured_ble_name = name,
                          !.ble_ready_event = TRUE]
    /\ timers' = timers \cup {"start_bluetooth_qc"}

\* ------------------------------------------------------------------------
\* business_logic/device_detection.py: serial_monitor_thread, run by
\* process_device_thread after a successful flash (lines 139-141)
\* ------------------------------------------------------------------------
\* Line 28: serial.Serial(port, ...) opens the port, or raises and the
\* monitor logs the error and returns (lines 66-67).
PDT_MonitorOpen(w) ==
    /\ workers[w].pc = "monitor_open"
    /\ \E opened \in (IF PortUsable(w) THEN {TRUE, FALSE} ELSE {FALSE}) :
         workers' = [workers EXCEPT ![w] =
            IF opened
            THEN [@ EXCEPT !.pc = "monitor", !.log = @ \cup {"MONITOR_STARTED"}]
            ELSE [@ EXCEPT !.pc = "done", !.log = @ \cup {"MONITOR_OPEN_ERROR"}]]
    /\ UNCHANGED NotWorkers

\* Lines 40-44: a line with the "Bluetooth MAC:" marker and a valid address.
PDT_MonitorMacLine(w) ==
    /\ workers[w].pc = "monitor"
    /\ hist.captures < MaxCaptures
    /\ workers[w].port \in attached
    /\ workers' = [workers EXCEPT ![w].mac_address = MacOf(workers[w].port)]
    /\ UNCHANGED NotWorkers

\* Lines 46-50: a line with the "Setting device name to:" marker.
PDT_MonitorNameLine(w) ==
    /\ workers[w].pc = "monitor"
    /\ hist.captures < MaxCaptures
    /\ workers[w].port \in attached
    /\ workers' = [workers EXCEPT ![w].device_name = DeviceName]
    /\ UNCHANGED NotWorkers

\* Lines 52-55: a line with the "discoverable" marker.
PDT_MonitorDiscoverableLine(w) ==
    /\ workers[w].pc = "monitor"
    /\ hist.captures < MaxCaptures
    /\ workers[w].port \in attached
    /\ IF workers[w].mac_address # "None" /\ workers[w].device_name # "None"
       THEN /\ set_captured_ble_details(workers[w].mac_address, workers[w].device_name)
            /\ workers' = [workers EXCEPT ![w].mac_address = "None",
                                          ![w].device_name = "None"]
            /\ hist' = [hist EXCEPT !.captures = @ + 1,
                                    !.captured = @ \/ workers[w].session = hist.session]
       ELSE UNCHANGED <<workers, app, timers, hist>>
    /\ UNCHANGED <<calls, attached, esp32_port, scanner_stop_event, detectors, qcs, retry, ui>>

\* PDT_MonitorEnd without the enumeration check of lines 58-60: the loop is
\* left only when reading an attached port raises SerialException.
PDT_MonitorEnd_IgnoresEnumeration(w) ==
    /\ workers[w].pc = "monitor"
    /\ workers[w].port \in attached
    /\ workers' = [workers EXCEPT ![w].pc = "done",
                                  ![w].mac_address = "None",
                                  ![w].device_name = "None",
                                  ![w].log = @ \cup {"MONITOR_STOPPED"}]
    /\ UNCHANGED NotWorkers

\* Lines 56-65: the port left the enumeration (idle cycle) or reading raised
\* SerialException: leave the loop, close the port, log, return.
PDT_MonitorEnd(w) ==
    /\ workers[w].pc = "monitor"
    /\ \E serial_exception \in BOOLEAN :
         /\ serial_exception \/ workers[w].port \notin attached
         /\ workers' = [workers EXCEPT ![w].pc = "done",
                                       ![w].mac_address = "None",
                                       ![w].device_name = "None",
                                       ![w].log = @ \cup {"MONITOR_STOPPED"}]
    /\ UNCHANGED NotWorkers

\* One step of a process_device_thread run.
PDT_Step(w) ==
    \/ PDT_Begin(w)
    \/ PDT_Burn(w)
    \/ PDT_VerifyRead(w)
    \/ PDT_ExistingRead(w)
    \/ PDT_ProdRead(w)
    \/ PDT_Flash(w)
    \/ PDT_MonitorOpen(w)
    \/ PDT_MonitorMacLine(w)
    \/ PDT_MonitorNameLine(w)
    \/ PDT_MonitorDiscoverableLine(w)
    \/ PDT_MonitorEnd(w)

\* ------------------------------------------------------------------------
\* Environment: ESP32 devices are plugged in and out
\* ------------------------------------------------------------------------
\* A device that is attached gets the first free port name.
Plug(p) ==
    /\ p \notin attached
    /\ \A q \in Ports : PortIndex(q) < PortIndex(p) => q \in attached
    /\ attached' = attached \cup {p}
    /\ UNCHANGED <<calls, esp32_port, scanner_stop_event, detectors, workers, qcs,
                   retry, timers, ui, app, hist>>

Unplug(p) ==
    /\ p \in attached
    /\ attached' = attached \ {p}
    /\ UNCHANGED <<calls, esp32_port, scanner_stop_event, detectors, workers, qcs,
                   retry, timers, ui, app, hist>>

\* ------------------------------------------------------------------------
\* ui/main_app.py: FlasherApp.device_detector_worker
\* ------------------------------------------------------------------------
\* Lines 958-1007.  A new thread (pc "init") first sets esp32_port = None
\* and last_status = None (lines 959-960) and goes straight into its first
\* pass; every pass leaves the loop when the stop flag is set, otherwise it
\* polls get_esp32_port and, when the status differs from this thread's
\* previous one, updates esp32_port and the buttons; then it sleeps.
DetectorIterate(d) ==
    /\ detectors[d].pc \in {"init", "loop"}
    /\ LET first == detectors[d].pc = "init"
           last_status == IF first THEN "None" ELSE detectors[d].last_status
           res == get_esp32_port(attached)
       IN  IF scanner_stop_event
           THEN /\ detectors' = [detectors EXCEPT ![d] = IdleDetector]
                /\ esp32_port' = IF first THEN NoPort ELSE esp32_port
                /\ UNCHANGED ui
           ELSE IF res.status # last_status
           THEN /\ detectors' = [detectors EXCEPT ![d] =
                                    [@ EXCEPT !.pc = "loop", !.port = res.port,
                                              !.last_status = res.status]]
                /\ esp32_port' = res.port
                /\ ui' = [ui EXCEPT
                      !.test_button = IF res.status = "ESP32_FOUND"
                                      THEN "normal" ELSE "disabled"]
           ELSE /\ detectors' = [detectors EXCEPT ![d].port = res.port]
                /\ UNCHANGED <<esp32_port, ui>>
    /\ UNCHANGED <<calls, attached, scanner_stop_event, workers, qcs, retry, timers,
                   app, hist>>

\* ------------------------------------------------------------------------
\* ui/main_app.py: the toy ID and connection prompts
\* ------------------------------------------------------------------------
\* start_qr_workflow / ask_toy_id / show_toy_id_input, run from a timer
\* (root.after(200, ...)) at start-up and after flash_new_device.
AskToyId ==
    /\ "ask_toy_id" \in timers
    /\ timers' = timers \ {"ask_toy_id"}
    /\ ui' = [ui EXCEPT !.toy_id_frame = TRUE]
    /\ UNCHANGED <<calls, attached, esp32_port, scanner_stop_event, detectors, workers,
                   qcs, retry, app, hist>>

\* on_toy_id_ok with an input that passes the checks of lines 285-299 (any
\* other input returns without a change), then hide_toy_id_input,
\* show_dino_connection_instructions and start_device_detection.
OnToyIdOk(toy) ==
    /\ ui.toy_id_frame
    /\ toy = ToyOfSession(hist.session)
    /\ HasFreeDetector
    /\ app' = [app EXCEPT !.processed_toy_id = toy]
    /\ ui' = [ui EXCEPT !.toy_id_frame = FALSE, !.connection_frame = TRUE]
    /\ scanner_stop_event' = FALSE
    /\ detectors' = SpawnDetector(detectors)
    /\ UNCHANGED <<calls, attached, esp32_port, workers, qcs, retry, timers, hist>>

\* on_connection_ok: refuses without a port; otherwise
\* hide_connection_instructions sets the stop flag, and
\* set_default_hardware_version clears it again and starts another detector.
\* A detector that samples the flag between the two leaves its loop
\* (the set 'stopped'); the others never see the flag set.
OnConnectionOk ==
    /\ ui.connection_frame
    /\ esp32_port # NoPort
    /\ \E stopped \in SUBSET { d \in DetectorIds : detectors[d].pc = "loop" } :
         LET dets == [d \in DetectorIds |->
                         IF d \in stopped THEN IdleDetector
                         ELSE StopRequested(detectors)[d]]
         IN  /\ \E d \in DetectorIds : dets[d].pc = "idle"
             /\ detectors' = SpawnDetector(dets)
    /\ scanner_stop_event' = FALSE
    /\ ui' = [ui EXCEPT !.connection_frame = FALSE]
    /\ app' = [app EXCEPT !.hw_version_var = V191]
    /\ timers' = timers \cup {"auto_start_testing_flash"}
    /\ UNCHANGED <<calls, attached, esp32_port, workers, qcs, retry, hist>>

\* start_flashing(operation) (lines 921-956): refuses without a port;
\* otherwise sets the stop flag, starts process_device_thread on esp32_port
\* and disables the buttons.  skip_efuse_read keeps its default.
start_flashing(operation) ==
    IF esp32_port = NoPort
    THEN UNCHANGED <<scanner_stop_event, detectors, workers, ui>>
    ELSE /\ scanner_stop_event' = TRUE
         /\ detectors' = StopRequested(detectors)
         /\ workers' = [workers EXCEPT ![FreeWorker] =
                           [NewWorker(esp32_port, operation, app.hw_version_var, FALSE)
                               EXCEPT !.session = hist.session]]
         /\ ui' = [ui EXCEPT !.test_button = "disabled"]

\* auto_start_testing_flash, from the timer of on_connection_ok.
AutoStartTestingFlash ==
    /\ "auto_start_testing_flash" \in timers
    /\ HasFreeWorker
    /\ timers' = timers \ {"auto_start_testing_flash"}
    /\ IF ui.test_button = "normal"
       THEN start_flashing("testing")
       ELSE UNCHANGED <<scanner_stop_event, detectors, workers, ui>>
    /\ UNCHANGED <<calls, attached, esp32_port, qcs, retry, app, hist>>

\* monitor_flash_thread (lines 945-949): when the worker thread has
\* returned, clear the stop flag and start a detector.
MonitorFlashThread(w) ==
    /\ workers[w].pc = "done"
    /\ HasFreeDetector
    /\ workers' = [workers EXCEPT ![w] = IdleWorker]
    /\ scanner_stop_event' = FALSE
    /\ detectors' = SpawnDetector(detectors)
    /\ UNCHANGED <<calls, attached, esp32_port, qcs, retry, timers, ui, app, hist>>

\* ------------------------------------------------------------------------
\* business_logic/bluetooth_qc.py: BluetoothQCManager
\* ------------------------------------------------------------------------
\* FlasherApp.start_bluetooth_qc from the timer of set_captured_ble_details
\* (root.after(100, ...)): start_bluetooth_qc_mode disables the buttons and
\* starts bt_qc_thread_wrapper.  bleak is available.
StartBluetoothQc ==
    /\ "start_bluetooth_qc" \in timers
    /\ HasFreeQc
    /\ timers' = timers \ {"start_bluetooth_qc"}
    /\ ui' = [ui EXCEPT !.test_button = "disabled"]
    /\ qcs' = [qcs EXCEPT ![FreeQc] = [IdleQc EXCEPT !.pc = "begin"]]
    /\ UNCHANGED <<calls, attached, esp32_port, scanner_stop_event, detectors, workers,
                   retry, app, hist>>

\* run_bluetooth_qc lines 202-232: without a captured MAC the session
\* returns at once; otherwise it waits for the ready event
\* (ble_ready_event.wait(timeout=20)) and gives up when the event is not set.
QC_Begin(q) ==
    /\ qcs[q].pc = "begin"
    /\ qcs' = [qcs EXCEPT ![q].pc =
                  IF app.physical_id # "None" /\ app.ble_ready_event
                  THEN "scan" ELSE "finish"]
    /\ UNCHANGED <<calls, attached, esp32_port, scanner_stop_event, detectors, workers,
                   retry, timers, ui, app, hist>>

\* Lines 236-263: one scan attempt of at most three.  A match needs a
\* captured MAC to compare with; no match or a scan error counts the attempt,
\* and the third failed attempt ends the session.
QC_Scan(q) ==
    /\ qcs[q].pc = "scan"
    /\ \E found \in (IF app.physical_id # "None" THEN {TRUE, FALSE} ELSE {FALSE}) :
         qcs' = [qcs EXCEPT ![q] =
            IF found THEN [@ EXCEPT !.pc = "results", !.attempt = 0]
            ELSE IF @.attempt + 1 >= 3 THEN [@ EXCEPT !.pc = "finish", !.attempt = 0]
            ELSE [@ EXCEPT !.attempt = @ + 1]]
    /\ UNCHANGED <<calls, attached, esp32_port, scanner_stop_event, detectors, workers,
                   retry, timers, ui, app, hist>>

\* FlasherApp.display_test_results lines 1165-1167.
AllPassed(results) ==
    Cardinality({i \in 1..Len(results) : results[i].status = "pass"}) = Len(results)

\* Lines 265-295 with MinimalBluetoothQCTester (connect_device returns True,
\* run_test returns a result) and FlasherApp.display_test_results (lines
\* 1162-1248) up to the call of send_to_bondu: the verdict is displayed; with all tests
\* passed, a toy ID, a MAC and api_payload_sent false the report is sent;
\* with api_payload_sent true the report is skipped and the new-device
\* button shown.
QC_DisplayResults(q) ==
    /\ qcs[q].pc = "results"
    /\ LET results == MinimalBluetoothQCTester_get_test_results
           all_passed == AllPassed(results)
           sends == /\ all_passed
                    /\ app.processed_toy_id # "None"
                    /\ app.physical_id # "None"
                    /\ ~app.api_payload_sent
       IN  /\ qcs' = [qcs EXCEPT ![q] =
                 IF results = <<>> THEN [@ EXCEPT !.pc = "finish"]
                 ELSE IF sends
                 THEN [@ EXCEPT !.pc = "sending"]
                 ELSE [@ EXCEPT !.pc = "finish"]]
           /\ ui' = IF results = <<>> THEN ui
                    ELSE [ui EXCEPT
                       !.test_result_label = IF all_passed THEN "APPROVED" ELSE "ATTENTION",
                       !.flash_new_device_button =
                           IF all_passed /\ ~sends /\ app.api_payload_sent THEN TRUE ELSE @]
           /\ hist' = IF results = <<>> THEN hist
                      ELSE [hist EXCEPT
                         !.results = results,
                         !.attempts = IF sends
                                      THEN @ \cup {<<app.processed_toy_id, app.physical_id>>}
                                      ELSE @]
    /\ UNCHANGED <<calls, attached, esp32_port, scanner_stop_event, detectors, workers,
                   retry, timers, app>>

\* FlasherApp.display_api_error (lines 1545-1615).
display_api_error(u) ==
    [u EXCEPT !.test_result_label = "API_FAILED", !.api_error_frame = TRUE,
              !.retry_api_button = "normal"]

\* Lines 1250-1258: send_to_bondu returned.  Success sets api_payload_sent
\* and shows the new-device button; failure displays the API error.
QC_SendReturned(q) ==
    /\ qcs[q].pc = "sending"
    /\ \E api_success \in BOOLEAN :
         /\ app' = [app EXCEPT !.api_payload_sent = IF api_success THEN TRUE ELSE @]
         /\ ui' = IF api_success
                  THEN [ui EXCEPT !.flash_new_device_button = TRUE]
                  ELSE display_api_error(ui)
         /\ hist' = [hist EXCEPT !.report = ReportOutcome(@, api_success)]
    /\ qcs' = [qcs EXCEPT ![q].pc = "finish"]
    /\ UNCHANGED <<calls, attached, esp32_port, scanner_stop_event, detectors, workers,
                   retry, timers>>

\* bt_qc_thread_wrapper lines 141-144: after run_bluetooth_qc returned,
\* clear the stop flag and start a detector.
QC_Finish(q) ==
    /\ qcs[q].pc = "finish"
    /\ HasFreeDetector
    /\ qcs' = [qcs EXCEPT ![q] = IdleQc]
    /\ scanner_stop_event' = FALSE
    /\ detectors' = SpawnDetector(detectors)
    /\ UNCHANGED <<calls, attached, esp32_port, workers, retry, timers, ui, app, hist>>

\* ------------------------------------------------------------------------
\* ui/main_app.py: retry of the inventory report
\* ------------------------------------------------------------------------
\* retry_api_transmission (lines 1617-1665): the operator presses the retry
\* button of the error frame; the button is disabled and retry_thread starts.
RetryApiTransmission ==
    /\ ui.api_error_frame
    /\ ui.retry_api_button = "normal"
    /\ retry.pc = "idle"
    /\ ui' = [ui EXCEPT !.retry_api_button = "disabled"]
    /\ retry' = [retry EXCEPT !.pc = "begin"]
    /\ UNCHANGED <<calls, attached, esp32_port, scanner_stop_event, detectors, workers,
                   qcs, timers, app, hist>>

\* clear_api_error_and_continue (lines 1710-1732): the error frame goes, the
\* label reads approved, and a timer (root.after(2000, ...)) will show the
\* new-device button.
clear_api_error_and_continue(u) ==
    [u EXCEPT !.api_error_frame = FALSE, !.retry_api_button = "none",
              !.test_result_label = "APPROVED"]

\* update_api_error_message (lines 1667-1694): the retry button is enabled
\* again.
update_api_error_message(u) ==
    [u EXCEPT !.retry_api_button = "normal"]

\* retry_thread lines 1629-1639 and 1654-1656: with a toy ID and a MAC the
\* report is sent again; without them the error is cleared
\* (root.after(0, clear_api_error_and_continue), run at the next turn of the
\* main loop).
Retry_Begin ==
    /\ retry.pc = "begin"
    /\ IF app.processed_toy_id # "None" /\ app.physical_id # "None"
       THEN /\ retry' = [pc |-> "sending"]
            /\ hist' = [hist EXCEPT !.attempts =
                           @ \cup {<<app.processed_toy_id, app.physical_id>>}]
            /\ UNCHANGED <<timers, ui>>
       ELSE /\ retry' = IdleRetry
            /\ ui' = clear_api_error_and_continue(ui)
            /\ timers' = timers \cup {"pack_flash_new_device_button"}
            /\ UNCHANGED hist
    /\ UNCHANGED <<calls, attached, esp32_port, scanner_stop_event, detectors, workers,
                   qcs, app>>

\* retry_thread lines 1641-1650: send_to_bondu returned; success sets
\* api_payload_sent and clears the error, failure updates the error message
\* (both through root.after(0, ...), run at the next turn of the main loop).
Retry_SendReturned ==
    /\ retry.pc = "sending"
    /\ \E api_success \in BOOLEAN :
         /\ app' = [app EXCEPT !.api_payload_sent = IF api_success THEN TRUE ELSE @]
         /\ ui' = IF api_success THEN clear_api_error_and_continue(ui)
                  ELSE update_api_error_message(ui)
         /\ timers' = IF api_success
                      THEN timers \cup {"pack_flash_new_device_button"}
                      ELSE timers
         /\ hist' = [hist EXCEPT !.report = ReportOutcome(@, api_success)]
    /\ retry' = IdleRetry
    /\ UNCHANGED <<calls, attached, esp32_port, scanner_stop_event, detectors, workers,
                   qcs>>

\* The timer of clear_api_error_and_continue (line 1727) packs the
\* new-device button.
PackFlashNewDeviceButton ==
    /\ "pack_flash_new_device_button" \in timers
    /\ timers' = timers \ {"pack_flash_new_device_button"}
    /\ ui' = [ui EXCEPT !.flash_new_device_button = TRUE]
    /\ UNCHANGED <<calls, attached, esp32_port, scanner_stop_event, detectors, workers,
                   qcs, retry, app, hist>>

\* ------------------------------------------------------------------------
\* ui/main_app.py: FlasherApp.flash_new_device (lines 1297-1321)
\* ------------------------------------------------------------------------
FlashNewDevice ==
    /\ ui.flash_new_device_button
    /\ hist.session < MaxSessions
    /\ hist.captures < MaxCaptures
    /\ ui' = [ui EXCEPT !.flash_new_device_button = FALSE,
                        !.test_result_label = "WAITING"]
    /\ app' = [app EXCEPT !.physical_id = "None", !.captured_ble_name = "None"]
    /\ timers' = timers \cup {"ask_toy_id"}
    /\ hist' = [InitHist EXCEPT !.session = hist.session + 1,
                                !.captures = hist.captures]
    /\ UNCHANGED <<calls, attached, esp32_port, scanner_stop_event, detectors, workers,
                   qcs, retry>>

\* ------------------------------------------------------------------------
\* Specification of one process_device_thread run with arbitrary parameters
\* ------------------------------------------------------------------------
InitCommon ==
    /\ esp32_port = NoPort
    /\ scanner_stop_event = FALSE
    /\ detectors = [d \in DetectorIds |-> IdleDetector]
    /\ qcs = [q \in QcIds |-> IdleQc]
    /\ retry = IdleRetry
    /\ timers = {}
    /\ ui = InitUi
    /\ app = InitApp
    /\ hist = InitHist

InitPDT ==
    /\ InitCommon
    /\ calls = <<>>
    /\ \E port \in Ports, mode \in Modes, target \in TargetVersions, skip \in BOOLEAN :
         /\ attached = {port}
         /\ workers = [w \in WorkerIds |->
                          IF w = 1 THEN NewWorker(port, mode, target, skip)
                          ELSE IdleWorker]

NextPDT == PDT_Step(1)

SpecPDT == InitPDT /\ [][NextPDT]_vars

\* A run of process_device_thread while the device may be unplugged and
\* plugged in again.  The run's thread keeps being scheduled: each call
\* returns and the monitor loop polls every 50 ms (time.sleep(0.05)).
NextPDTPorts ==
    \/ PDT_Step(1)
    \/ \E p \in Ports : Plug(p)
    \/ \E p \in Ports : Unplug(p)

SpecPDTLive == InitPDT /\ [][NextPDTPorts]_vars /\ WF_vars(PDT_Step(1))

\* ------------------------------------------------------------------------
\* Specifications of the application
\* ------------------------------------------------------------------------
\* The steps of the application's threads and handlers.  The GUI starts
\* workers in testing mode only, so the production read is not among them.
AppStep ==
    \/ \E d \in DetectorIds : DetectorIterate(d)
    \/ AskToyId
    \/ \E toy \in ToyIds : OnToyIdOk(toy)
    \/ OnConnectionOk
    \/ AutoStartTestingFlash
    \/ \E w \in WorkerIds : PDT_Begin(w)
    \/ \E w \in WorkerIds : PDT_Burn(w)
    \/ \E w \in WorkerIds : PDT_VerifyRead(w)
    \/ \E w \in WorkerIds : PDT_ExistingRead(w)
    \/ \E w \in WorkerIds : PDT_Flash(w)
    \/ \E w \in WorkerIds : PDT_MonitorOpen(w)
    \/ \E w \in WorkerIds : PDT_MonitorMacLine(w)
    \/ \E w \in WorkerIds : PDT_MonitorNameLine(w)
    \/ \E w \in WorkerIds : PDT_MonitorDiscoverableLine(w)
    \/ \E w \in WorkerIds : PDT_MonitorEnd(w)
    \/ \E w \in WorkerIds : MonitorFlashThread(w)
    \/ StartBluetoothQc
    \/ \E q \in QcIds : QC_Begin(q)
    \/ \E q \in QcIds : QC_Scan(q)
    \/ \E q \in QcIds : QC_DisplayResults(q)
    \/ \E q \in QcIds : QC_SendReturned(q)
    \/ \E q \in QcIds : QC_Finish(q)
    \/ RetryApiTransmission
    \/ Retry_Begin
    \/ Retry_SendReturned
    \/ PackFlashNewDeviceButton

\* After FlasherApp.__init__: nothing runs, the start-up timer
\* (root.after(200, self.start_qr_workflow)) is pending; the devices in
\* 'ports' may be attached.
InitApp_(ports) ==
    /\ calls = <<>>
    /\ attached \in SUBSET ports
    /\ esp32_port = NoPort
    /\ scanner_stop_event = FALSE
    /\ detectors = [d \in DetectorIds |-> IdleDetector]
    /\ workers = [w \in WorkerIds |-> IdleWorker]
    /\ qcs = [q \in QcIds |-> IdleQc]
    /\ retry = IdleRetry
    /\ timers = {"ask_toy_id"}
    /\ ui = InitUi
    /\ app = InitApp
    /\ hist = InitHist

\* One device session on a bench where devices come and go on both ports:
\* the operator works on one device and never presses 'flash new device'.
InitDevice == InitApp_(Ports)

NextDevice ==
    \/ AppStep
    \/ \E p \in Ports : Plug(p)
    \/ \E p \in Ports : Unplug(p)

SpecDevice == InitDevice /\ [][NextDevice]_vars

\* A sequence of device sessions on a bench with one cable: every device is
\* attached at the first port.
Init == InitApp_({FirstPort})

Next ==
    \/ AppStep
    \/ Plug(FirstPort)
    \/ Unplug(FirstPort)
    \/ FlashNewDevice

Spec == Init /\ [][Next]_vars

\* ------------------------------------------------------------------------
\* Functions examined on their own.  The application is idle; the inputs
\* and results of the calls are kept in the variable calls.
\* ------------------------------------------------------------------------
NotCalls == <<attached, esp32_port, scanner_stop_event, detectors, workers, qcs, retry, timers,
              ui, app, hist>>

InitIdle ==
    /\ InitCommon
    /\ attached = {}
    /\ workers = [w \in WorkerIds |-> IdleWorker]

\* ------------------------------------------------------------------------
\* The scan bench: serial ports of any kind come and go, get_esp32_port is
\* called on the enumeration of the moment (device_detection.py)
\* ------------------------------------------------------------------------
\* ListPortInfo.hwid values as pyserial builds them, cut at the places the
\* scan can tell apart: an ESP32-S3, a USB bridge of another vendor, a port
\* that is not USB.
HwidBridge == <<"USB VID:PID=", "10C4:EA60", " SER=", "0001">>

Hwids ==
    { <<"USB VID:PID=", "303A:1001", " SER=", "34:85:18:A1:B2:C3">>, HwidBridge, <<"n/a">> }

\* Python's  needle in hwid  for a needle that is one piece of the hwid.
StrContains(hwid, needle) == \E i \in 1..Len(hwid) : hwid[i] = needle

\* The list comprehension of get_esp32_port over comports(), as device names.
esp32_ports(comports) ==
    {p.device : p \in {q \in comports : StrContains(q.hwid, "303A:1001")}}

Scan_Plug(p, hwid) ==
    /\ \A q \in calls.comports : q.device # p
    /\ calls' = [calls EXCEPT !.comports = @ \cup {[device |-> p, hwid |-> hwid]}]
    /\ UNCHANGED NotCalls

Scan_Unplug(p) ==
    /\ \E q \in calls.comports : q.device = p
    /\ calls' = [calls EXCEPT !.comports = {q \in @ : q.device # p}]
    /\ UNCHANGED NotCalls

Scan_Call ==
    /\ Len(calls.scans) < MaxScans
    /\ calls' = [calls EXCEPT !.scans =
                    Append(@, [comports |-> calls.comports,
                               result |-> get_esp32_port(esp32_ports(calls.comports))])]
    /\ UNCHANGED NotCalls

InitScan ==
    /\ InitIdle
    /\ calls = [comports |-> {}, scans |-> <<>>]

NextScan ==
    \/ \E p \in Ports, hwid \in Hwids : Scan_Plug(p, hwid)
    \/ \E p \in Ports : Scan_Unplug(p)
    \/ Scan_Call

SpecScan == InitScan /\ [][NextScan]_vars

\* ------------------------------------------------------------------------
\* The eFuse bench: one blank device, one burn_efuse with a version string,
\* read_efuse_version before and after it (firmware.py)
\* ------------------------------------------------------------------------
\* Values of a version component: both ends of the byte range, one- and
\* two-digit decimals, values whose hexadecimal text has letters.
EfuseBytes == {0, 1, 9, 10, 16, 171, 255}

BlankBlock == <<0, 0, 0>>

NoRead == [summary |-> SummaryNoBlock, result |-> <<"not read">>, burned |-> "none"]

Efuse_Burn(tool) ==
    /\ calls.burn = "none"
    /\ LET res == burn_efuse(calls.version, tool)
       IN  calls' = [calls EXCEPT
                       !.burn = res,
                       !.block = IF res = "true"
                                 THEN efuse_buffer(parse_version(calls.version))
                                 ELSE @]
    /\ UNCHANGED NotCalls

\* The summary subprocess fails, prints a text without the block, or prints
\* the block of the device; read_efuse_version works on what it gets.
Efuse_Read(summary) ==
    /\ summary.kind = "exit0" /\ summary.groups # <<>>
          => summary = SummaryOfBlock(calls.block)
    /\ calls' = [calls EXCEPT !.read = [summary |-> summary,
                                        result |-> read_efuse_version(summary),
                                        burned |-> calls.burn]]
    /\ UNCHANGED NotCalls

\* The version strings of the bench: every "X.Y.Z" over EfuseBytes, and the
\* malformed and out-of-range strings.
InitEfuse ==
    /\ InitIdle
    /\ \E v \in {FormatVersion(a, b, c) : a, b, c \in EfuseBytes} \cup TargetVersions :
         calls = [version |-> v, block |-> BlankBlock, burn |-> "none", read |-> NoRead]

NextEfuse ==
    \/ \E tool \in BurnToolOutcomes : Efuse_Burn(tool)
    \/ \E k \in SummaryFailures : Efuse_Read([kind |-> k, groups |-> <<>>])
    \/ Efuse_Read(SummaryNoBlock)
    \/ Efuse_Read(SummaryOfBlock(calls.block))

SpecEfuse == InitEfuse /\ [][NextEfuse]_vars

\* ------------------------------------------------------------------------
\* The parse bench: parse_version on formatted and malformed strings
\* (utils/helpers.py)
\* ------------------------------------------------------------------------
\* The inputs, each with the components it was formatted from: "X.Y.Z" over
\* EfuseBytes and two values above a byte, and strings that are not three
\* decimal segments (no components).
ParseInputs ==
    {[text |-> FormatVersion(a, b, c), parts |-> <<a, b, c>>] :
        a, b, c \in EfuseBytes \cup {256, 1000}}
    \cup {[text |-> t, parts |-> NoneTuple] :
            t \in {V19, V1x1, VEmpty, <<"1", ".", "9", ".", "1", ".", "0">>,
                   <<"1", ".", ".", "1">>, <<"v", "1", ".", "9", ".", "1">>}}

NotParsed == <<"not called">>

Parse_Call ==
    /\ calls.result = NotParsed
    /\ calls' = [calls EXCEPT !.result = parse_version(calls.input.text)]
    /\ UNCHANGED NotCalls

InitParse ==
    /\ InitIdle
    /\ \E input \in ParseInputs : calls = [input |-> input, result |-> NotParsed]

SpecParse == InitParse /\ [][Parse_Call]_vars

\* ------------------------------------------------------------------------
\* The flash bench: one call of flash_device, with download_firmware, against
\* a catalog, a firmware directory and a flashing subprocess (firmware.py)
\* ------------------------------------------------------------------------
FileTypes == <<"bootloader", "app", "partition_table", "ota_initial">>

Filenames == <<"bootloader.bin", "magical-toys.bin", "partition-table.bin",
               "ota_data_initial.bin">>

FileIndex == 1..Len(Filenames)

\* Builds of the catalog.  created_at is an ordered timestamp.
BuildA == [id |-> "a", created_at |-> 1, supported_versions |-> {V191}]
BuildB == [id |-> "b", created_at |-> 2, supported_versions |-> {V191, V192}]
BuildC == [id |-> "c", created_at |-> 3, supported_versions |-> {V192}]
BuildD == [id |-> "d", created_at |-> 2, supported_versions |-> {V191}]
BuildE == [id |-> "e", created_at |-> 4, supported_versions |-> {}]

\* The catalogs response.json() can be: lists of builds in any order.
Catalogs ==
    { <<>>, <<BuildC>>, <<BuildA, BuildB, BuildC>>, <<BuildB, BuildA, BuildE>>,
      <<BuildD, BuildB, BuildC>>, <<BuildE, BuildC, BuildA>> }

\* Line 23: the builds whose supported_versions contains the version.
compatible(builds, hardware_version) ==
    SelectSeq(builds, LAMBDA b : hardware_version \in b.supported_versions)

\* max() of the first compatible build, whatever its date.
latest_build_First(builds) == builds[1]

\* Line 27: max(compatible, key=created_at), the first of the greatest.
latest_build(builds) ==
    builds[CHOOSE i \in 1..Len(builds) :
             /\ \A j \in 1..Len(builds) : builds[j].created_at <= builds[i].created_at
             /\ \A j \in 1..(i - 1) : builds[j].created_at < builds[i].created_at]

\* Lines 16-17: the catalog path and the firmware directory of a mode.
api_path(mode) == IF mode = "production" THEN "builds" ELSE "testing-builds"

fw_dir(mode) == IF mode = "production" THEN "FIRMWARE_DIR" ELSE "TESTING_FIRMWARE_DIR"

\* Contents of one file of the firmware directory: absent, left by an
\* earlier run, partly written, or the id of the build it was downloaded from.
Stale == "earlier run"

Partial == "partial"

EmptyDir == [i \in FileIndex |-> "absent"]

\* Output lines of esptool write_flash, by what flash_device looks for in
\* them: the address after "Writing at", the percentage before "%", the
\* address after "Wrote ... at".
NoText == <<>>

AppAddress == "0x00260000"

\* The application at 50.5% and at 100.0%, the bootloader at 100.0%, the
\* "Wrote ... at" line of the application, a line with none of these.
FlashLines ==
    { [writing_at |-> AppAddress, percent |-> <<"5", "0", ".", "5">>, wrote_at |-> ""],
      [writing_at |-> AppAddress, percent |-> <<"1", "0", "0", ".", "0">>, wrote_at |-> ""],
      [writing_at |-> "0x0", percent |-> <<"1", "0", "0", ".", "0">>, wrote_at |-> ""],
      [writing_at |-> "", percent |-> NoText, wrote_at |-> AppAddress],
      [writing_at |-> "", percent |-> NoText, wrote_at |-> ""] }

\* Line 159: int(float(text)) of a decimal text, its integer part.
IntOfFloat(text) ==
    DigitsVal(SubSeq(text, 1, (CHOOSE i \in 1..Len(text) : text[i] = ".") - 1), 0)

ReturnCodes == {0, 1, 2}

\* flash_device taking a reported 100% for a successful flash.
flash_result_TrustsProgress(return_code, progress) ==
    IF return_code # 0 /\ \A i \in 1..Len(progress) : progress[i] # 100 THEN "false" ELSE "true"

\* Lines 164-173: the result after process.wait().
flash_result(return_code, progress) ==
    IF return_code # 0 THEN "false" ELSE "true"

\* flash_device going on to the flashing subprocess after a failed download.
DownloadFailed_FlashesAnyway(c) ==
    [c EXCEPT !.download = "failed", !.pc = "popen", !.hidden = @ + 1]

\* Lines 24-26, 44-46 and 130-134: download_firmware returns False and
\* flash_device puts ('hide_progress',) and returns False at once.
DownloadFailed(c) ==
    [c EXCEPT !.download = "failed", !.pc = "returned", !.result = "false",
              !.hidden = @ + 1]

\* Lines 117-129: ('show_progress',) is put on the log queue; the files of
\* the firmware directory are removed, or stay when os.remove fails.
Flash_ClearDir(removed) ==
    /\ calls.pc = "start"
    /\ calls' = [calls EXCEPT !.pc = "catalog",
                              !.shown = @ + 1,
                              !.disk = IF removed THEN EmptyDir ELSE @]
    /\ UNCHANGED NotCalls

\* Lines 19-29: the catalog request and the selection of the build.
Flash_GetCatalog(outcome) ==
    /\ calls.pc = "catalog"
    /\ LET c == [calls EXCEPT !.catalog_url = api_path(calls.mode)]
           builds == compatible(calls.catalog, calls.hardware_version)
       IN  calls' = IF outcome = "network_error" THEN DownloadFailed(c)
                    ELSE IF builds = <<>> THEN DownloadFailed(c)
                    ELSE [c EXCEPT !.pc = "file", !.build_id = latest_build(builds).id]
    /\ UNCHANGED NotCalls

\* Lines 33-41: the download of the next artifact.  A network error strikes
\* at the request or in the middle of the body; an OSError of open(),
\* write() or makedirs() is not caught by download_firmware, and the call at
\* line 130 is outside the try of flash_device: the exception leaves
\* flash_device with nothing more put on the log queue.
Flash_DownloadFile(outcome) ==
    /\ calls.pc = "file"
    /\ LET i == Len(calls.requested) + 1
           c == [calls EXCEPT !.requested =
                                 Append(@, [build_id |-> calls.build_id, f_type |-> FileTypes[i]])]
       IN  calls' =
             IF outcome = "ok"
             THEN IF i = Len(Filenames)
                  THEN [c EXCEPT !.disk[i] = calls.build_id, !.download = "ok", !.pc = "popen"]
                  ELSE [c EXCEPT !.disk[i] = calls.build_id]
             ELSE IF outcome = "network_error_request" THEN DownloadFailed(c)
             ELSE IF outcome = "network_error_body"
                  THEN DownloadFailed([c EXCEPT !.disk[i] = Partial])
             ELSE [c EXCEPT !.download = "raised", !.pc = "returned", !.result = "raise"]
    /\ UNCHANGED NotCalls

\* Lines 135-139: the flashing subprocess is started on the four files;
\* an exception of Popen is caught (174-177) and the finally clause
\* (178-180) puts ('hide_progress',).
Flash_Popen(outcome) ==
    /\ calls.pc = "popen"
    /\ calls' = IF outcome = "ok"
                THEN [calls EXCEPT !.popen = @ + 1, !.pc = "lines"]
                ELSE [calls EXCEPT !.popen = @ + 1, !.pc = "returned", !.result = "false",
                                   !.hidden = @ + 1]
    /\ UNCHANGED NotCalls

\* Lines 142-162: one line of the subprocess output.
Flash_ReadLine(line) ==
    /\ calls.pc = "lines"
    /\ calls.lines < MaxLines
    /\ LET flashing == calls.is_flashing_main_app \/ line.writing_at = AppAddress
       IN  calls' = [calls EXCEPT
                       !.lines = @ + 1,
                       !.progress = IF flashing /\ line.percent # NoText
                                    THEN Append(@, IntOfFloat(line.percent)) ELSE @,
                       !.is_flashing_main_app = flashing /\ line.wrote_at # AppAddress]
    /\ UNCHANGED NotCalls

\* Lines 142 and 174-177: reading the output raises (a decoding error, a
\* closed pipe); the exception is caught and the exit code is not collected.
Flash_ReadRaises ==
    /\ calls.pc = "lines"
    /\ calls' = [calls EXCEPT !.pc = "returned", !.result = "false", !.hidden = @ + 1]
    /\ UNCHANGED NotCalls

\* Lines 163-180: end of output, process.wait(), the result and the
\* finally clause.
Flash_Wait(return_code) ==
    /\ calls.pc = "lines"
    /\ calls' = [calls EXCEPT !.pc = "returned", !.waited = TRUE,
                              !.return_code = return_code,
                              !.hidden = @ + 1,
                              !.result = flash_result(return_code, calls.progress)]
    /\ UNCHANGED NotCalls

InitFlash ==
    /\ InitIdle
    /\ \E mode \in {"production", "testing"}, hardware_version \in {V191, V192},
          catalog \in Catalogs, disk \in {EmptyDir, [i \in FileIndex |-> Stale]} :
         calls = [mode |-> mode, hardware_version |-> hardware_version, catalog |-> catalog,
                  fw_dir |-> fw_dir(mode), disk |-> disk, pc |-> "start",
                  catalog_url |-> "", build_id |-> "", requested |-> <<>>,
                  download |-> "none", popen |-> 0, lines |-> 0,
                  is_flashing_main_app |-> FALSE, progress |-> <<>>,
                  waited |-> FALSE, return_code |-> 0, result |-> "none",
                  shown |-> 0, hidden |-> 0]

NextFlash ==
    \/ \E removed \in BOOLEAN : Flash_ClearDir(removed)
    \/ \E outcome \in {"ok", "network_error"} : Flash_GetCatalog(outcome)
    \/ \E outcome \in {"ok", "network_error_request", "network_error_body", "oserror"} :
          Flash_DownloadFile(outcome)
    \/ \E outcome \in {"ok", "oserror"} : Flash_Popen(outcome)
    \/ \E line \in FlashLines : Flash_ReadLine(line)
    \/ Flash_ReadRaises
    \/ \E return_code \in ReturnCodes : Flash_Wait(return_code)

SpecFlash == InitFlash /\ [][NextFlash]_vars

\* ------------------------------------------------------------------------
\* The monitor bench: one serial_monitor_thread reading the lines of its
\* device (device_detection.py lines 30-55)
\* ------------------------------------------------------------------------
\* Texts after the "Bluetooth MAC: " marker: 17 characters of an address in
\* lower or upper case, or a cut-off address the pattern does not match.
MacLower == "a4:cf:12:00:00:01"

MacUpper == "A4:CF:12:00:00:01"

\* Line 41: the pattern matches 17 characters of hex digits and separators.
mac_match(text) == text \in {MacLower, MacUpper}

\* Line 43: .strip().upper() of a matched address.
mac_upper(text) == IF text = MacLower THEN MacUpper ELSE text

\* Text after the "Setting device name to: " marker, with the line end the
\* device sends, and what .strip() leaves of it (line 49).
NameRaw == "DinoCore-01\r"

name_strip(text) == IF text = NameRaw THEN "DinoCore-01" ELSE text

\* A line by the markers it carries: the text after the MAC marker, the text
\* after the name marker, the "now discoverable" marker.
NoMarker == ""

MonitorLine(mac, name, discoverable) ==
    [mac |-> mac, name |-> name, discoverable |-> discoverable]

MonitorLines ==
    { MonitorLine(MacLower, NoMarker, FALSE),
      MonitorLine("a4:cf:12", NoMarker, FALSE),
      MonitorLine(NoMarker, NameRaw, FALSE),
      MonitorLine(NoMarker, NoMarker, TRUE),
      MonitorLine(NoMarker, NoMarker, FALSE) }

\* serial_monitor_thread keeping the captured MAC and name after it called
\* set_captured_ble_details.
serial_monitor_line_KeepsCapture(m, line) ==
    LET mac_address == IF line.mac # NoMarker /\ mac_match(line.mac)
                       THEN mac_upper(line.mac) ELSE m.mac_address
        device_name == IF line.name # NoMarker THEN name_strip(line.name) ELSE m.device_name
        emit == line.discoverable /\ mac_address # "None" /\ device_name # "None"
    IN  [mac_address |-> mac_address, device_name |-> device_name,
         emit |-> emit, mac |-> mac_address, name |-> device_name]

\* Lines 40-55 on one line: the locals mac_address and device_name after
\* it, and whether set_captured_ble_details was called and with what.
serial_monitor_line(m, line) ==
    LET mac_address == IF line.mac # NoMarker /\ mac_match(line.mac)
                       THEN mac_upper(line.mac) ELSE m.mac_address
        device_name == IF line.name # NoMarker THEN name_strip(line.name) ELSE m.device_name
        emit == line.discoverable /\ mac_address # "None" /\ device_name # "None"
    IN  [mac_address |-> IF emit THEN "None" ELSE mac_address,
         device_name |-> IF emit THEN "None" ELSE device_name,
         emit |-> emit, mac |-> mac_address, name |-> device_name]

Monitor_ReadLine(line) ==
    /\ Len(calls.lines) < MaxMonitorLines
    /\ LET m == serial_monitor_line(calls, line)
       IN  /\ calls' = [mac_address |-> m.mac_address, device_name |-> m.device_name,
                        lines |-> Append(calls.lines, line),
                        emitted |-> IF m.emit
                                    THEN Append(calls.emitted,
                                                [at |-> Len(calls.lines) + 1,
                                                 mac |-> m.mac, name |-> m.name])
                                    ELSE calls.emitted]
           /\ IF m.emit THEN set_captured_ble_details(m.mac, m.name)
              ELSE UNCHANGED <<app, timers>>
    /\ UNCHANGED <<attached, esp32_port, scanner_stop_event, detectors, workers, qcs, retry,
                   ui, hist>>

\* Lines 30-31: nothing captured when the monitor starts.
InitMonitor ==
    /\ InitIdle
    /\ calls = [mac_address |-> "None", device_name |-> "None", lines |-> <<>>,
                emitted |-> <<>>]

SpecMonitor == InitMonitor /\ [][\E line \in MonitorLines : Monitor_ReadLine(line)]_vars

\* ------------------------------------------------------------------------
\* The QC session bench: one run of run_bluetooth_qc
\* (src/business_logic/bluetooth_qc.py 200-339) from its scan loop on, against
\* a tester whose calls answer as BluetoothQCTester's or
\* MinimalBluetoothQCTester's can. calls records what the session did.
\* ------------------------------------------------------------------------
\* Line 235: max_retries = 3.
max_retries == 3

\* Addresses BleakScanner.discover reports: the device under test in either
\* letter case, and a neighbour.
Addresses == {MacLower, MacUpper, "11:22:33:44:55:66"}

DeviceLists == UNION { [1..n -> Addresses] : n \in 0..MaxDevices }

address_matches_CaseSensitive(address, physical_id) == address = physical_id

\* Line 244: device.address.upper() == self.app_instance.physical_id.upper().
address_matches(address, physical_id) == mac_upper(address) = mac_upper(physical_id)

\* Lines 238-263: one pass of the scan loop; found_device is the first device
\* of the list that matches. An exception of the attempt is logged and the
\* attempt counts; after max_retries passes without a device the session
\* returns at line 263.
Qc_Discover(devices, raised) ==
    /\ calls.pc = "scan"
    /\ raised => devices = <<>>
    /\ LET hits    == { i \in 1..Len(devices) :
                            address_matches(devices[i], calls.physical_id) }
           found   == IF raised \/ hits = {} THEN "None"
                      ELSE devices[CHOOSE i \in hits : \A j \in hits : i <= j]
           attempt == Len(calls.scans) + 1
           over    == found = "None" /\ attempt >= max_retries
       IN  calls' = [calls EXCEPT
                        !.scans = Append(@, [devices |-> devices, raised |-> raised]),
                        !.found_device = found,
                        !.pc = IF found # "None" THEN "connect"
                               ELSE IF over THEN "end" ELSE "scan",
                        !.outcome = IF over THEN "not_found" ELSE @]
    /\ UNCHANGED NotCalls

\* Qc_Connect going on to the test command whatever connect_device answered.
Qc_Connect_IgnoresAnswer(connected) ==
    /\ calls.pc = "connect"
    /\ calls' = [calls EXCEPT !.connects = @ + 1,
                              !.is_connected = connected,
                              !.pc = "dispatch",
                              !.outcome = IF connected THEN @ ELSE "connect_failed"]
    /\ UNCHANGED NotCalls

\* Lines 266-270: connect_device answers True or False (src/bluetooth_qc.py
\* 111-137 catches its own exceptions).
Qc_Connect(connected) ==
    /\ calls.pc = "connect"
    /\ calls' = [calls EXCEPT !.connects = @ + 1,
                              !.is_connected = connected,
                              !.pc = IF connected THEN "dispatch" ELSE "end",
                              !.outcome = IF connected THEN @ ELSE "connect_failed"]
    /\ UNCHANGED NotCalls

\* Lines 276-282 and 321: run_test is tried twice; a sent command may or may
\* not be answered by a result notification, which the tester appends to
\* test_results (src/bluetooth_qc.py 208).
Qc_RunTest(sent, notification) ==
    /\ calls.pc = "dispatch"
    /\ ~sent => notification = "none"
    /\ LET tries == calls.dispatches + 1
       IN  calls' = [calls EXCEPT
                        !.dispatches = tries,
                        !.sent = sent,
                        !.test_results = IF notification = "none" THEN @
                                         ELSE Append(@, notification),
                        !.pc = IF sent THEN "wait"
                               ELSE IF tries >= 2 THEN "disconnect" ELSE "dispatch",
                        !.outcome = IF ~sent /\ tries >= 2 THEN "test_failed" ELSE @]
    /\ UNCHANGED NotCalls

Qc_Results_WaitsForNotification ==
    /\ calls.pc = "wait"
    /\ calls.test_results # <<>>
    /\ calls' = [calls EXCEPT !.pc = "display"]
    /\ UNCHANGED NotCalls

\* Lines 288-320: after the fixed sleep of 15 s the results are fetched;
\* none means "No test results received".
Qc_Results ==
    /\ calls.pc = "wait"
    /\ calls' = [calls EXCEPT
                    !.pc = IF calls.test_results # <<>> THEN "display" ELSE "disconnect",
                    !.outcome = IF calls.test_results # <<>> THEN @ ELSE "no_results"]
    /\ UNCHANGED NotCalls

\* Line 292: display_test_results runs on the QC thread; it configures Tk
\* widgets and reads physical_id again (main_app.py 1183-1293), so it returns
\* or raises. An exception leaves the try body for line 325.
Qc_Display(raises) ==
    /\ calls.pc = "display"
    /\ calls' = [calls EXCEPT !.pc = IF raises THEN "end" ELSE "disconnect",
                              !.outcome = IF raises THEN "exception" ELSE "displayed"]
    /\ UNCHANGED NotCalls

\* Line 323, the last statement of the try body: disconnect
\* (src/bluetooth_qc.py 301-311) logs a failing client.disconnect() and
\* clears is_connected either way.
Qc_Disconnect(fails) ==
    /\ calls.pc = "disconnect"
    /\ calls' = [calls EXCEPT !.disconnects = @ + 1,
                              !.disconnect_failed = fails,
                              !.is_connected = FALSE,
                              !.pc = "end"]
    /\ UNCHANGED NotCalls

InitQc ==
    /\ InitIdle
    /\ \E physical_id \in {MacLower, MacUpper} :
          calls = [physical_id |-> physical_id, pc |-> "scan", scans |-> <<>>,
                   found_device |-> "None", connects |-> 0, is_connected |-> FALSE,
                   dispatches |-> 0, sent |-> FALSE, test_results |-> <<>>,
                   disconnects |-> 0, disconnect_failed |-> FALSE, outcome |-> "running"]

NextQc ==
    \/ \E devices \in DeviceLists, raised \in BOOLEAN : Qc_Discover(devices, raised)
    \/ \E connected \in BOOLEAN : Qc_Connect(connected)
    \/ \E sent \in BOOLEAN, notification \in {"none", "pass", "fail"} :
          Qc_RunTest(sent, notification)
    \/ Qc_Results
    \/ \E raises \in BOOLEAN : Qc_Display(raises)
    \/ \E fails \in BOOLEAN : Qc_Disconnect(fails)

SpecQc == InitQc /\ [][NextQc]_vars

\* asyncio.run drives the coroutine until it returns: every await of the
\* session (discover, connect, write, sleep, disconnect) comes back.
SpecQcLive == SpecQc /\ WF_vars(NextQc)

\* ------------------------------------------------------------------------
\* The microphone evaluation bench: mic_lr_test notifications handed to
\* BluetoothQCTester.handle_mic_lr_test_result (src/bluetooth_qc.py 172-217).
\* ------------------------------------------------------------------------
\* RMS values a device reports, around the threshold.
RmsSamples == {0, QC_THRESHOLD - 1, QC_THRESHOLD, QC_THRESHOLD + 1}

\* The 'tone' object of a payload: which of the two keys it carries, and
\* their values. A payload without 'tone' has tone = FALSE.
MicPayloads ==
    [tone : {TRUE}, keys : SUBSET {"rms_L", "rms_R"}, rms_L : RmsSamples, rms_R : RmsSamples]
      \cup {[tone |-> FALSE, keys |-> {}, rms_L |-> 0, rms_R |-> 0]}

handle_mic_lr_test_result_NotStrict(test_results, payload) ==
    IF ~payload.tone \/ payload.keys = {} THEN test_results
    ELSE LET rms_l == IF "rms_L" \in payload.keys THEN payload.rms_L ELSE 0
             rms_r == IF "rms_R" \in payload.keys THEN payload.rms_R ELSE 0
             left_passed  == rms_l >= QC_THRESHOLD
             right_passed == rms_r >= QC_THRESHOLD
         IN  Append(test_results,
                    [name |-> "Test Mic L/R Balance",
                     status |-> IF left_passed /\ right_passed THEN "pass" ELSE "fail",
                     rms_L |-> rms_l, rms_R |-> rms_r,
                     left_passed |-> left_passed, right_passed |-> right_passed,
                     threshold |-> QC_THRESHOLD])

\* Lines 176-208: a payload whose 'tone' is missing or empty adds nothing;
\* otherwise the two values are read with default 0, each compared with
\* QC_THRESHOLD by >, and one result is appended to test_results.
handle_mic_lr_test_result(test_results, payload) ==
    IF ~payload.tone \/ payload.keys = {} THEN test_results
    ELSE LET rms_l == IF "rms_L" \in payload.keys THEN payload.rms_L ELSE 0
             rms_r == IF "rms_R" \in payload.keys THEN payload.rms_R ELSE 0
             left_passed  == rms_l > QC_THRESHOLD
             right_passed == rms_r > QC_THRESHOLD
         IN  Append(test_results,
                    [name |-> "Test Mic L/R Balance",
                     status |-> IF left_passed /\ right_passed THEN "pass" ELSE "fail",
                     rms_L |-> rms_l, rms_R |-> rms_r,
                     left_passed |-> left_passed, right_passed |-> right_passed,
                     threshold |-> QC_THRESHOLD])

\* notification_handler (147-170) passes a mic_lr_test message on.
Mic_Notify(payload) ==
    /\ Len(calls.notifications) < MaxResults
    /\ calls' = [notifications |-> Append(calls.notifications, payload),
                 test_results |-> handle_mic_lr_test_result(calls.test_results, payload)]
    /\ UNCHANGED NotCalls

\* Line 54: test_results = [].
InitMic ==
    /\ InitIdle
    /\ calls = [notifications |-> <<>>, test_results |-> <<>>]

SpecMic == InitMic /\ [][\E payload \in MicPayloads : Mic_Notify(payload)]_vars

\* ------------------------------------------------------------------------
\* The log bench: producer threads put messages on log_queue, update_log
\* (src/ui/main_app.py 852-919) takes them one by one on the Tk thread; the
\* progress bar is moved by ('progress', n) messages, by the Bluetooth-phase
\* animation and by reset_progress_bar. calls.enqueued is the history of
\* puts, calls.op the last operation.
\* ------------------------------------------------------------------------
\* What the producers put: a plain line, a (tab, text) pair, the progress
\* tuples of flash_device (firmware.py 117, 149, 160).
TextMessages ==
    { [kind |-> "str", text |-> "Hash of data verified.", n |-> 0],
      [kind |-> "Firebase", text |-> "Firebase initialized", n |-> 0],
      [kind |-> "show_progress", text |-> "", n |-> 0],
      [kind |-> "progress_update", text |-> "Flashing... 30.0%", n |-> 0] }

ProgressMessages == { [kind |-> "progress", text |-> "", n |-> n] : n \in {30, 70, 100} }

\* Line 864: str(message_info); a tuple prints with its parentheses.
str(message_info) ==
    CASE message_info.kind = "str" -> message_info.text
      [] message_info.kind = "show_progress" -> "('show_progress',)"
      [] message_info.kind = "progress" -> "('progress', " \o ToString(message_info.n) \o ")"
      [] OTHER -> "('" \o message_info.kind \o "', '" \o message_info.text \o "')"

queue_get_Lifo(queue) ==
    [item |-> queue[Len(queue)], rest |-> SubSeq(queue, 1, Len(queue) - 1)]

\* Line 854: get_nowait takes the oldest message of the FIFO queue.
queue_get(queue) == [item |-> Head(queue), rest |-> Tail(queue)]

set_progress_bar_max_Assigns(current, new_value) == new_value

\* Lines 1065-1069: the value moves only to a higher one.
set_progress_bar_max(current, new_value) ==
    IF new_value > current THEN new_value ELSE current

\* queue.Queue.put by any thread.
Log_Put(message_info) ==
    /\ Len(calls.enqueued) < MaxMessages
    /\ calls' = [calls EXCEPT !.queue = Append(@, message_info),
                              !.enqueued = Append(@, message_info),
                              !.op = "put"]
    /\ UNCHANGED NotCalls

\* Lines 853-917: one pass of the while loop of a tick (every tick re-arms
\* itself at line 919, so there is always a tick to take the next message).
\* The message is appended to session_logs; a ('progress', n) moves the bar,
\* show_progress is ignored, a "Flashing... %" line replaces the last line
\* of the log view, anything else is added to it.
update_log ==
    /\ calls.queue # <<>>
    /\ LET got == queue_get(calls.queue)
           m   == got.item
           replaces == m.kind = "progress_update" /\ calls.log_view # <<>>
       IN  calls' = [calls EXCEPT
                        !.queue = got.rest,
                        !.session_logs = Append(@, str(m)),
                        !.value = IF m.kind = "progress"
                                  THEN set_progress_bar_max(@, m.n) ELSE @,
                        !.log_view = IF m.kind \in {"progress", "show_progress"} THEN @
                                     ELSE IF replaces
                                          THEN Append(SubSeq(@, 1, Len(@) - 1), m.text)
                                          ELSE Append(@, m.text),
                        !.op = "get"]
    /\ UNCHANGED NotCalls

\* Lines 1031-1059: the animation starts at max(value, 50); at 100 or more
\* it does nothing, else animate_step runs once at once and schedules the
\* next value. One chain of steps is followed at a time.
start_bluetooth_progress_animation ==
    /\ calls.anim = 0
    /\ LET current_progress == IF calls.value < 50 THEN 50 ELSE calls.value
       IN  calls' = [calls EXCEPT
                        !.value = set_progress_bar_max(@, current_progress),
                        !.anim = IF 100 - current_progress <= 0 THEN 0
                                 ELSE current_progress + 1,
                        !.op = "animation"]
    /\ UNCHANGED NotCalls

\* Lines 1052-1057: a scheduled step; past 100 the chain ends.
animate_step ==
    /\ calls.anim # 0
    /\ calls' = [calls EXCEPT
                    !.value = IF calls.anim <= 100
                              THEN set_progress_bar_max(@, calls.anim) ELSE @,
                    !.anim = IF calls.anim <= 100 THEN @ + 1 ELSE 0,
                    !.op = "step"]
    /\ UNCHANGED NotCalls

\* Lines 1061-1063, called by on_connection_ok (401) and flash_new_device
\* (1317); a running animation is not cancelled.
reset_progress_bar ==
    /\ calls.value # 0
    /\ calls' = [calls EXCEPT !.value = 0, !.op = "reset"]
    /\ UNCHANGED NotCalls

\* Lines 141, 146 and 683.
InitLog ==
    /\ InitIdle
    /\ calls = [queue |-> <<>>, enqueued |-> <<>>, session_logs |-> <<>>,
                log_view |-> <<>>, value |-> 0, anim |-> 0, op |-> "init"]

SpecLog ==
    InitLog /\ [][\/ \E m \in TextMessages \cup ProgressMessages : Log_Put(m)
                  \/ update_log]_vars

NextProgress ==
    \/ \E m \in ProgressMessages : Log_Put(m)
    \/ update_log
    \/ start_bluetooth_progress_animation
    \/ animate_step
    \/ reset_progress_bar

SpecProgress == InitLog /\ [][NextProgress]_vars

\* ------------------------------------------------------------------------
\* The QC retry bench: QC sessions of one device whose results may fail,
\* shown by FlasherApp.display_test_results (src/ui/main_app.py 1162-1295),
\* and the "Try Again" button, retry_bluetooth_qc (1323-1337). calls holds
\* the fields of the device session and the history of QC runs.
\* ------------------------------------------------------------------------
\* The status lists a tester can hand over: one or two tests, each pass or
\* fail.
QcResultLists ==
    UNION { [1..n -> {[status |-> "pass"], [status |-> "fail"]}] : n \in 1..2 }

display_test_results_ReportsAnyResult(session, results, api_success) ==
    LET sends == /\ session.toy_id # "None"
                 /\ session.physical_id # "None"
                 /\ ~session.api_payload_sent
    IN  [session EXCEPT
            !.test_result_label = IF AllPassed(results) THEN "APPROVED" ELSE "ATTENTION",
            !.reports = IF sends THEN @ + 1 ELSE @,
            !.api_payload_sent = IF sends /\ api_success THEN TRUE ELSE @,
            !.try_again_button = ~AllPassed(results)]

\* Lines 1165-1293: the verdict is shown; with all tests passed the report is
\* sent once (api_payload_sent) and the Try Again button hidden; with a
\* failed test nothing is sent and the button is packed. No field of the
\* device session is written.
display_test_results(session, results, api_success) ==
    LET all_passed == AllPassed(results)
        sends == /\ all_passed
                 /\ session.toy_id # "None"
                 /\ session.physical_id # "None"
                 /\ ~session.api_payload_sent
    IN  [session EXCEPT
            !.test_result_label = IF all_passed THEN "APPROVED" ELSE "ATTENTION",
            !.reports = IF sends THEN @ + 1 ELSE @,
            !.api_payload_sent = IF sends /\ api_success THEN TRUE ELSE @,
            !.try_again_button = ~all_passed]

\* run_bluetooth_qc lines 244-292 for a session that found the device at
\* physical_id and got results.
Retry_QcResults(results, api_success) ==
    /\ calls.running
    /\ LET shown == display_test_results(calls, results, api_success)
       IN  calls' = [shown EXCEPT
                        !.running = FALSE,
                        !.qc_runs = Append(@, [mac |-> calls.physical_id,
                                               results |-> results,
                                               passed |-> AllPassed(results)])]
    /\ UNCHANGED NotCalls

\* Lines 1323-1337: the button is hidden, the labels reset and
\* start_bluetooth_qc starts a new session.
retry_bluetooth_qc ==
    /\ calls.try_again_button
    /\ ~calls.running
    /\ Len(calls.qc_runs) < MaxRuns
    /\ calls' = [calls EXCEPT !.try_again_button = FALSE,
                              !.test_result_label = "RETRYING",
                              !.running = TRUE]
    /\ UNCHANGED NotCalls

\* A device whose capture started the first QC session.
InitRetry ==
    /\ InitIdle
    /\ calls = [toy_id |-> ToyOfSession(1), physical_id |-> MacUpper,
                captured_ble_name |-> DeviceName, api_payload_sent |-> FALSE,
                test_result_label |-> "WAITING", try_again_button |-> FALSE,
                reports |-> 0, running |-> TRUE, qc_runs |-> <<>>]

SpecRetry ==
    InitRetry /\ [][\/ \E results \in QcResultLists, api_success \in BOOLEAN :
                          Retry_QcResults(results, api_success)
                    \/ retry_bluetooth_qc]_vars

\* ------------------------------------------------------------------------
\* api_client.py: InventoryAPIClient, exercised on its own.  Each call of an
\* inventory reporting operation meets one outcome of session.post: an HTTP
\* response with a status code, a requests.exceptions.RequestException, or
\* another exception.
\* ------------------------------------------------------------------------
HttpStatuses == {200, 201, 204, 400, 500}

PostOutcomes ==
    { [kind |-> "response", status_code |-> s] : s \in HttpStatuses }
    \cup { [kind |-> "RequestException", status_code |-> 0],
           [kind |-> "Exception", status_code |-> 0] }

\* api_client.py 32-80: update_inventory returns True for status 200 (lines
\* 63-70), False for another status (71-73) and False from both except
\* clauses (75-80).
update_inventory(post) ==
    [value |-> post.kind = "response" /\ post.status_code = 200,
     raised |-> FALSE]

\* api_client.py 82-136: send_to_bondu_api returns (True, "", text) for
\* status 200 or 201 (lines 121-123), (False, message, text) for another
\* status (124-127) and from both except clauses (129-136).
send_to_bondu_api(post) ==
    [value |-> post.kind = "response" /\ post.status_code \in {200, 201},
     raised |-> FALSE]

\* api_client.py 154-184: one call of update_toy_inventory or send_to_bondu,
\* recorded with the outcome of its post and what the operation returned.
Api_Call(operation, post) ==
    /\ "api_calls" \in DOMAIN calls
    /\ Len(calls.api_calls) < MaxApiCalls
    /\ calls' = [calls EXCEPT !.api_calls = Append(@,
                   [operation |-> operation, post |-> post,
                    result |-> IF operation = "update_inventory"
                               THEN update_inventory(post)
                               ELSE send_to_bondu_api(post)])]
    /\ UNCHANGED NotCalls

InitApi ==
    /\ InitIdle
    /\ calls = [api_calls |-> <<>>]

NextApi ==
    \E operation \in {"update_inventory", "send_to_bondu_api"}, post \in PostOutcomes :
        Api_Call(operation, post)

SpecApi == InitApi /\ [][NextApi]_vars

\* ------------------------------------------------------------------------
\* Properties of process_device_thread (checked under SpecPDT)
\* ------------------------------------------------------------------------
\* The versions read_efuse_version returned so far in run w.
VersionsRead(w) == { workers[w].read_results[i] : i \in 1..Len(workers[w].read_results) }

\* flash_device has been invoked in run w, or is the call the run is at.
FlashInvoked(w) == workers[w].flash_calls # <<>> \/ workers[w].pc = "flash"

\* C1: in testing mode, after burn_efuse reported success, flash_device is
\* invoked if and only if the single read_efuse_version that follows returned
\* the target version; on a mismatch (a read of none included) the run ends
\* without a flash; the burn and the read-back happen at most once.
C1_VerifyThenFlash ==
    \A w \in WorkerIds :
        (workers[w].mode = "testing" /\ workers[w].burn_result = "true") =>
            /\ workers[w].burn_calls = 1
            /\ Len(workers[w].read_results) <= 1
            /\ FlashInvoked(w) <=>
                  (/\ Len(workers[w].read_results) = 1
                   /\ workers[w].read_results[1] = workers[w].target_hw_version)
            /\ (/\ Len(workers[w].read_results) = 1
                /\ workers[w].read_results[1] # workers[w].target_hw_version)
               => (/\ workers[w].pc = "done"
                   /\ workers[w].flash_calls = <<>>
                   /\ "VERIFICATION_FAILED" \in workers[w].log)

\* A testing run whose burn succeeded, whose read-back returned the target
\* and which then called flash_device.
C1_Witness ==
    \E w \in WorkerIds :
        /\ workers[w].mode = "testing"
        /\ workers[w].burn_result = "true"
        /\ workers[w].read_results = <<workers[w].target_hw_version>>
        /\ workers[w].flash_calls = <<workers[w].target_hw_version>>

\* C2: a production run never calls burn_efuse, whatever its other parameters.
C2_NoBurnInProduction ==
    \A w \in WorkerIds :
        workers[w].mode = "production" =>
            (workers[w].burn_calls = 0 /\ workers[w].pc # "burn")

\* A production run that read a version, flashed and ended.
C2_Witness ==
    \E w \in WorkerIds :
        /\ workers[w].mode = "production"
        /\ ~workers[w].skip_efuse_read
        /\ workers[w].flash_calls # <<>>
        /\ workers[w].pc = "done"

C4_ProductionNoVersionNoFlash ==
    \A w \in WorkerIds :
        (/\ workers[w].mode = "production"
         /\ \E i \in 1..Len(workers[w].read_results) : workers[w].read_results[i] = NoneStr)
        => (/\ workers[w].flash_calls = <<>>
            /\ workers[w].pc = "done"
            /\ workers[w].flash_hw_version = NoneStr
            /\ ~workers[w].success
            /\ "PRODUCTION_FAILED_RUN_TESTING_FIRST" \in workers[w].log)

\* A production run whose read returned none.
C4_Witness ==
    \E w \in WorkerIds :
        /\ workers[w].mode = "production"
        /\ workers[w].read_results = <<NoneStr>>
        /\ workers[w].pc = "done"

\* ------------------------------------------------------------------------
\* Properties of the application (checked under SpecDevice and Spec)
\* ------------------------------------------------------------------------
\* start_flashing started process_device_thread in slot w in this step.
WorkerStarted(w) == workers[w].pc = "idle" /\ workers'[w].pc = "start"

\* C5: a device-processing worker is started only while exactly one
\* matching port is attached: every step in which start_flashing starts a
\* worker is taken in a state with exactly one attached ESP32.
C5_StartOnlyWithOnePort ==
    [][(\E w \in WorkerIds : WorkerStarted(w)) => Cardinality(attached) = 1]_vars

\* C6: while the device is marked APPROVED, every QC result recorded for it
\* has status pass, and every result with status pass has a left RMS and a
\* right RMS strictly greater than QC_THRESHOLD.
C6_ApprovedOnlyAboveThreshold ==
    ui.test_result_label = "APPROVED" =>
        \A i \in 1..Len(hist.results) :
            /\ hist.results[i].status = "pass"
            /\ hist.results[i].rms_L > QC_THRESHOLD
            /\ hist.results[i].rms_R > QC_THRESHOLD

\* C7: whenever the operator is offered the next device after the toy ID of
\* the current session was entered and a QC of the session ended with all
\* results pass, send_to_bondu has been called in this session with the
\* session's toy ID and MAC.
C7_ReportAttemptedBeforeNextDevice ==
    ( /\ ui.flash_new_device_button
      /\ app.processed_toy_id = ToyOfSession(hist.session)
      /\ hist.results # <<>>
      /\ AllPassed(hist.results) )
    => <<app.processed_toy_id, app.physical_id>> \in hist.attempts

\* C8: after an inventory report of the current device failed, only the
\* manual retry transmission clears the blocked state: every step that ends
\* the state "a report failed and none succeeded" is the return of the
\* send_to_bondu call made by retry_api_transmission.
C8_OnlyRetryClearsBlocked ==
    [][(hist.report = "failed" /\ hist'.report # "failed")
          => (retry.pc = "sending" /\ retry'.pc = "idle")]_vars

\* C9: at most one process_device_thread (its serial monitor included) is
\* alive at any time.
C9_AtMostOneWorker ==
    Cardinality({w \in WorkerIds : WorkerAlive(w)}) <= 1

\* Run w is about to start an espefuse subprocess on its port: burn_efuse
\* with the GUI's version, or read_efuse_version.
StartsToolOnPort(w) == workers[w].pc \in {"burn", "verify_read", "existing_read"}

\* C10: no burn or read subprocess is started on a port while the serial
\* monitor of another run holds it open: every step in which a run calls
\* burn_efuse or read_efuse_version is taken while no other run's monitor
\* holds that port.
C10_NoToolOnMonitoredPort ==
    [][\A w \in WorkerIds :
          (StartsToolOnPort(w) /\ workers'[w] # workers[w])
             => \A o \in WorkerIds \ {w} :
                   ~(HoldsPort(o) /\ workers[o].port = workers[w].port)]_vars

\* C11: every scan result is determined by the ports of the enumeration that
\* carry the vendor:product ID 303A:1001: none gives NO_ESP32_FOUND and no
\* port, exactly one gives ESP32_FOUND and that port's device path, more than
\* one gives MULTIPLE_ESP32_FOUND and no port; two scans of the same
\* enumeration agree, and MULTIPLE_ESP32_FOUND is followed by ESP32_FOUND
\* only when the number of such ports differs.
VidPidPorts(comports) == {q \in comports : Len(q.hwid) > 1 /\ q.hwid[2] = "303A:1001"}

C11_ScanDeterminedByMatchingPorts ==
    "scans" \in DOMAIN calls =>
        /\ \A i \in 1..Len(calls.scans) :
              LET m == VidPidPorts(calls.scans[i].comports)
                  r == calls.scans[i].result
              IN  /\ m = {} => r = [port |-> NoPort, status |-> "NO_ESP32_FOUND"]
                  /\ Cardinality(m) = 1 =>
                        r.status = "ESP32_FOUND" /\ \E q \in m : r.port = q.device
                  /\ Cardinality(m) > 1 =>
                        r = [port |-> NoPort, status |-> "MULTIPLE_ESP32_FOUND"]
        /\ \A i, j \in 1..Len(calls.scans) :
              /\ calls.scans[i].comports = calls.scans[j].comports
                    => calls.scans[i].result = calls.scans[j].result
              /\ (i < j /\ calls.scans[i].result.status = "MULTIPLE_ESP32_FOUND"
                        /\ calls.scans[j].result.status = "ESP32_FOUND")
                    => Cardinality(VidPidPorts(calls.scans[i].comports))
                         # Cardinality(VidPidPorts(calls.scans[j].comports))

\* Two ESP32 boards were seen, then one of them next to a port of another kind.
C11_Witness ==
    /\ "scans" \in DOMAIN calls
    /\ Len(calls.scans) > 1
    /\ calls.scans[1].result.status = "MULTIPLE_ESP32_FOUND"
    /\ calls.scans[Len(calls.scans)].result.status = "ESP32_FOUND"
    /\ \E q \in calls.scans[Len(calls.scans)].comports : q.hwid = HwidBridge

\* C12: for every version v = "X.Y.Z" with X, Y, Z in 0..255, when
\* burn_efuse(v) succeeded on the blank device and read_efuse_version then
\* parsed the block out of the summary, the read returned v; for v = "0.0.0"
\* it returned none, and no read of that device ever returned a version.
ValidVersion(v) ==
    LET parts == parse_version(v)
    IN  /\ parts # NoneTuple
        /\ \A i \in 1..3 : parts[i] \in 0..255
        /\ v = FormatVersion(parts[1], parts[2], parts[3])

C12_BurnReadRoundTrip ==
    "burn" \in DOMAIN calls =>
        /\ ( /\ ValidVersion(calls.version)
             /\ calls.read.burned = "true"
             /\ calls.read.summary.kind = "exit0"
             /\ calls.read.summary.groups # <<>> )
           => calls.read.result = (IF calls.version = V000 THEN NoneStr ELSE calls.version)
        /\ calls.version = V000 => calls.read.result \in {NoneStr, NoRead.result}

\* A version whose bytes need hexadecimal letters was burned and read back.
C12_Witness ==
    /\ "burn" \in DOMAIN calls
    /\ calls.version = FormatVersion(171, 10, 255)
    /\ calls.read.burned = "true"
    /\ calls.read.result = calls.version

\* C13: read_efuse_version returns none when the summary subprocess exits
\* non-zero, times out or raises, when its output has no three-byte block,
\* and when the three bytes are all zero; in every other case it returns the
\* three bytes of the block in decimal as "major.minor.patch".  It never
\* raises.
C13_ReadNoneOrParsedBytes ==
    ("burn" \in DOMAIN calls /\ calls.read # NoRead) =>
        LET rd == calls.read
            block == IF rd.burned = "true"
                     THEN efuse_buffer(parse_version(calls.version)) ELSE BlankBlock
        IN  IF \/ rd.summary.kind \in SummaryFailures
               \/ rd.summary.groups = <<>>
               \/ block = BlankBlock
            THEN rd.result = NoneStr
            ELSE rd.result = FormatVersion(block[1], block[2], block[3])

\* A block with non-zero bytes was printed and came back in decimal.
C13_Witness ==
    /\ "burn" \in DOMAIN calls
    /\ calls.read.summary.kind = "exit0"
    /\ calls.read.summary.groups # <<>>
    /\ calls.read.result = FormatVersion(16, 0, 9)

\* C14: parse_version returns the components a string "X.Y.Z" was formatted
\* from when each of them is in 0..255, and none for every other string: one
\* with a wrong number of segments, a non-numeric segment or a component
\* outside 0..255.
C14_ParseInverseOrNone ==
    ("input" \in DOMAIN calls /\ calls.result # NotParsed) =>
        IF /\ calls.input.parts # NoneTuple
           /\ \A i \in 1..3 : calls.input.parts[i] \in 0..255
        THEN calls.result = calls.input.parts
        ELSE calls.result = NoneTuple

\* C15: when flash_device has returned, it returned true if and only if
\* download_firmware succeeded and the flashing subprocess was waited for and
\* exited with code 0; the progress values parsed from the output, a 100
\* included, play no part.
C15_FlashTrueIffDownloadAndExitZero ==
    ("popen" \in DOMAIN calls /\ calls.pc = "returned") =>
        (calls.result = "true"
            <=> (calls.download = "ok" /\ calls.waited /\ calls.return_code = 0))

\* The output reported 100% of the application and the exit code was not 0.
C15_Witness ==
    /\ "popen" \in DOMAIN calls
    /\ calls.pc = "returned"
    /\ calls.download = "ok"
    /\ calls.waited /\ calls.return_code # 0
    /\ \E i \in 1..Len(calls.progress) : calls.progress[i] = 100
    /\ calls.result = "false"

\* C16: when download_firmware failed (network error on the catalog or on an
\* artifact, no compatible build), flash_device has returned false and the
\* flashing subprocess was never started, whatever is in the firmware
\* directory.
C16_NoFlashAfterFailedDownload ==
    ("popen" \in DOMAIN calls /\ calls.download = "failed") =>
        /\ calls.pc = "returned"
        /\ calls.result = "false"
        /\ calls.popen = 0

\* The download failed with an artifact of this download, a partial one and
\* one of an earlier run in the directory.
C16_Witness ==
    /\ "popen" \in DOMAIN calls
    /\ calls.download = "failed"
    /\ calls.build_id # ""
    /\ \E i, j, k \in FileIndex :
         calls.disk[i] = calls.build_id /\ calls.disk[j] = Partial /\ calls.disk[k] = Stale

\* C17: the build download_firmware selects is in the catalog, lists the
\* target hardware version, and no build that lists it has a greater
\* created_at; every artifact is requested from that build, and after a
\* successful download the four artifacts on disk are the four of that build.
C17_LatestCompatibleBuild ==
    ("popen" \in DOMAIN calls /\ calls.build_id # "") =>
        /\ \E i \in 1..Len(calls.catalog) :
              /\ calls.catalog[i].id = calls.build_id
              /\ calls.hardware_version \in calls.catalog[i].supported_versions
              /\ \A j \in 1..Len(calls.catalog) :
                    calls.hardware_version \in calls.catalog[j].supported_versions
                       => calls.catalog[j].created_at <= calls.catalog[i].created_at
        /\ \A n \in 1..Len(calls.requested) :
              calls.requested[n] = [build_id |-> calls.build_id, f_type |-> FileTypes[n]]
        /\ calls.download = "ok" =>
              /\ Len(calls.requested) = Len(FileTypes)
              /\ \A n \in FileIndex : calls.disk[n] = calls.build_id

\* The newest build of the catalog does not list the version; the four
\* artifacts came from the newest one that does.
C17_Witness ==
    /\ "popen" \in DOMAIN calls
    /\ calls.catalog = <<BuildB, BuildA, BuildE>>
    /\ calls.hardware_version = V191
    /\ calls.download = "ok"
    /\ calls.build_id = BuildB.id

\* Run w is at or past the start of its serial monitor.
MonitorStarted(w) ==
    \/ workers[w].pc \in {"monitor_open", "monitor"}
    \/ workers[w].log \cap {"MONITOR_STARTED", "MONITOR_OPEN_ERROR", "MONITOR_STOPPED"} # {}

\* C18: a run reaches its serial monitor only after its flash_device
\* returned true; a run whose flash_device returned false has ended with
\* the failure reported, has called flash_device once and never reached the
\* serial monitor.
C18_MonitorOnlyAfterFlashOk ==
    \A w \in WorkerIds :
        /\ MonitorStarted(w) =>
              ("FLASH_OK" \in workers[w].log /\ workers[w].success)
        /\ "FLASH_FAILED" \in workers[w].log =>
              /\ workers[w].pc = "done"
              /\ workers[w].error = "Flash process failed"
              /\ ~workers[w].success
              /\ Len(workers[w].flash_calls) = 1
              /\ ~MonitorStarted(w)

\* A run whose flash failed has ended.
C18_Witness ==
    \E w \in WorkerIds :
        /\ "FLASH_FAILED" \in workers[w].log
        /\ workers[w].pc = "done"
        /\ Len(workers[w].flash_calls) = 1

\* The position of the last capture event before line i, 0 when there is none.
LastEmissionBefore(i) ==
    LET at == {calls.emitted[n].at : n \in 1..Len(calls.emitted)} \cap (1..(i - 1))
    IN  IF at = {} THEN 0 ELSE CHOOSE a \in at : \A b \in at : b <= a

\* C19: the serial monitor emits a capture event at a line exactly when the
\* line carries the "discoverable" marker and, since the start of the monitor
\* or since its last capture event, a line with a MAC and a line with a name
\* were read; right after an emission the captured MAC and name are cleared,
\* and the application has received the MAC and the name.
C19_EmitExactlyOnCompleteCapture ==
    "emitted" \in DOMAIN calls =>
        /\ \A i \in 1..Len(calls.lines) :
              (\E n \in 1..Len(calls.emitted) : calls.emitted[n].at = i)
              <=> ( /\ calls.lines[i].discoverable
                    /\ \E j \in (LastEmissionBefore(i) + 1)..(i - 1) :
                          calls.lines[j].mac \in {MacLower, MacUpper}
                    /\ \E k \in (LastEmissionBefore(i) + 1)..(i - 1) :
                          calls.lines[k].name # NoMarker )
        /\ \A n \in 1..Len(calls.emitted) :
              calls.emitted[n].mac = MacUpper /\ calls.emitted[n].name = "DinoCore-01"
        /\ (calls.emitted # <<>> /\ calls.emitted[Len(calls.emitted)].at = Len(calls.lines))
              => /\ calls.mac_address = "None" /\ calls.device_name = "None"
                 /\ app.physical_id = MacUpper /\ app.ble_ready_event

\* MAC, name and marker gave one event; the marker read again gave none.
C19_Witness ==
    /\ "emitted" \in DOMAIN calls
    /\ Len(calls.lines) > Len(calls.emitted) + 2
    /\ calls.lines[Len(calls.lines)].discoverable
    /\ calls.lines[Len(calls.lines) - 1].discoverable
    /\ Len(calls.emitted) = 1
    /\ calls.emitted[1].at = Len(calls.lines) - 1

\* QC session q is scanning for the device or is past the scan.
QcScanning(q) == qcs[q].pc \in {"scan", "results", "sending"}

\* C20: a QC session is scanning, or past its scan, only when in the current
\* device session the serial monitor of a run started for this device has
\* emitted its capture event; a session without that event ends at the wait.
C20_ScanOnlyAfterCaptureOfCurrentDevice ==
    \A q \in QcIds : QcScanning(q) => hist.captured

\* ------------------------------------------------------------------------
\* Properties of the QC session (checked under SpecQc and SpecQcLive)
\* ------------------------------------------------------------------------
\* A scan pass that reported a device whose address equals the captured MAC
\* when letter case is ignored.
ScanHit(scan) ==
    /\ ~scan.raised
    /\ \E i \in 1..Len(scan.devices) : mac_upper(scan.devices[i]) = mac_upper(calls.physical_id)

\* C21: the scan phase makes at most 3 passes, no pass follows one that found
\* the captured MAC (letter case ignored), a hit ends the scanning, and 3
\* passes without a hit end the session as a failure with no connect and no
\* test dispatch.
C21_AtMostThreeScansStopAtFirstMatch ==
    "scans" \in DOMAIN calls =>
        LET n == Len(calls.scans)
        IN  /\ n <= 3
            /\ \A i \in 1..(n - 1) : ~ScanHit(calls.scans[i])
            /\ (n > 0 /\ ScanHit(calls.scans[n])) =>
                  /\ calls.pc # "scan"
                  /\ mac_upper(calls.found_device) = mac_upper(calls.physical_id)
            /\ (n = 3 /\ ~ScanHit(calls.scans[n])) =>
                  /\ calls.pc = "end"
                  /\ calls.outcome = "not_found"
                  /\ calls.connects = 0
                  /\ calls.dispatches = 0
            /\ calls.connects > 0 => (n > 0 /\ ScanHit(calls.scans[n]))

C21_Witness ==
    /\ "scans" \in DOMAIN calls
    /\ Len(calls.scans) = 3
    /\ calls.outcome = "not_found"

C21_WitnessOtherCase ==
    /\ "scans" \in DOMAIN calls
    /\ Len(calls.scans) = 2
    /\ calls.found_device # "None"
    /\ calls.found_device # calls.physical_id
    /\ calls.connects = 1

\* C22: a session that dispatched the test command always reaches its end,
\* and when no result notification arrived it ends with "no results"
\* reported and one disconnect.
C22_SessionEndsWithoutResult ==
    /\ [](("sent" \in DOMAIN calls /\ calls.pc = "end" /\ calls.sent
              /\ calls.test_results = <<>>)
            => (calls.outcome = "no_results" /\ calls.disconnects = 1))
    /\ (("sent" \in DOMAIN calls /\ calls.pc = "wait")
            ~> ("sent" \in DOMAIN calls /\ calls.pc = "end"))

C22_Witness ==
    /\ "sent" \in DOMAIN calls
    /\ calls.pc = "end"
    /\ calls.sent
    /\ calls.test_results = <<>>
    /\ calls.outcome = "no_results"
    /\ calls.disconnects = 1

\* C24: a session that connected and has ended has attempted a disconnect.
C24_DisconnectOnEveryEndAfterConnect ==
    ("connects" \in DOMAIN calls /\ calls.pc = "end" /\ calls.connects > 0
        /\ calls.outcome # "connect_failed")
      => calls.disconnects >= 1

\* ------------------------------------------------------------------------
\* Properties of the microphone evaluation (checked under SpecMic)
\* ------------------------------------------------------------------------
\* The values the evaluation reads from a notification: a key that is absent
\* reads as 0.
RmsRead(payload, key) ==
    IF key \notin payload.keys THEN 0
    ELSE IF key = "rms_L" THEN payload.rms_L ELSE payload.rms_R

\* The notifications that carry tone data, in order of arrival.
ToneNotifications == SelectSeq(calls.notifications, LAMBDA p : p.tone /\ p.keys # {})

\* C23: every notification with tone data has one result, whose status is
\* "pass" exactly when the left and the right RMS are both strictly greater
\* than the threshold, and whose per-channel outcomes are each the comparison
\* of that channel alone.
C23_PassIffBothChannelsAboveThreshold ==
    "notifications" \in DOMAIN calls =>
        /\ Len(calls.test_results) = Len(ToneNotifications)
        /\ \A i \in 1..Len(calls.test_results) :
              LET r == calls.test_results[i]
                  l == RmsRead(ToneNotifications[i], "rms_L")
                  rr == RmsRead(ToneNotifications[i], "rms_R")
              IN  /\ r.rms_L = l /\ r.rms_R = rr
                  /\ r.threshold = 4500
                  /\ (r.status = "pass") <=> (l > 4500 /\ rr > 4500)
                  /\ (r.status = "fail") <=> (l <= 4500 \/ rr <= 4500)
                  /\ r.left_passed <=> (l > 4500)
                  /\ r.right_passed <=> (rr > 4500)

\* A pass, and the same left value with the right one lowered to the
\* threshold: overall fail with the left channel still recorded as passed.
C23_Witness ==
    /\ "notifications" \in DOMAIN calls
    /\ Len(calls.test_results) = 2
    /\ calls.test_results[1].status = "pass"
    /\ calls.test_results[2].status = "fail"
    /\ calls.test_results[2].rms_L = calls.test_results[1].rms_L
    /\ calls.test_results[2].rms_R = 4500
    /\ calls.test_results[2].left_passed
    /\ ~calls.test_results[2].right_passed

\* ------------------------------------------------------------------------
\* Properties of the log queue and the progress bar (checked under SpecLog
\* and SpecProgress)
\* ------------------------------------------------------------------------
\* C29: the messages taken so far are the first ones put, in the order they
\* were put, each once, and the messages still queued are the others in that
\* order; session_logs holds the text of the messages taken.
C29_DeliveredOnceInOrder ==
    "enqueued" \in DOMAIN calls =>
        LET taken == Len(calls.session_logs)
        IN  /\ taken <= Len(calls.enqueued)
            /\ \A i \in 1..taken : calls.session_logs[i] = str(calls.enqueued[i])
            /\ calls.queue = SubSeq(calls.enqueued, taken + 1, Len(calls.enqueued))

\* All messages put by interleaved producers were taken, two different ones
\* among them.
C29_Witness ==
    /\ "enqueued" \in DOMAIN calls
    /\ Len(calls.enqueued) = MaxMessages
    /\ Len(calls.session_logs) = MaxMessages
    /\ calls.enqueued[1] # calls.enqueued[2]
    /\ calls.queue = <<>>

\* C30: a step that is not a reset never lowers the displayed progress value.
C30_ProgressNeverDecreasesBetweenResets ==
    [][("value" \in DOMAIN calls /\ calls'.op # "reset") => calls'.value >= calls.value]_vars

\* A lower progress message was handled after a higher value was displayed,
\* and the higher value stayed.
C30_Witness ==
    /\ "value" \in DOMAIN calls
    /\ calls.op = "get"
    /\ calls.value > 70
    /\ calls.value < 100
    /\ Len(calls.session_logs) > 0
    /\ calls.session_logs[Len(calls.session_logs)] = "('progress', 30)"

\* ------------------------------------------------------------------------
\* Properties of the QC retry (checked under SpecRetry)
\* ------------------------------------------------------------------------
\* C25: toy ID, MAC and device name of the session are never changed by a QC
\* result or a retry, every QC run is made against that MAC, after a failing
\* result the Try Again button is offered however many runs have failed, and
\* no report is sent unless a run has passed.
C25_FailingQcKeepsSessionAndOffersRetry ==
    "qc_runs" \in DOMAIN calls =>
        LET n == Len(calls.qc_runs)
        IN  /\ calls.toy_id = ToyOfSession(1)
            /\ calls.physical_id = MacUpper
            /\ calls.captured_ble_name = DeviceName
            /\ \A i \in 1..n : calls.qc_runs[i].mac = MacUpper
            /\ (n > 0 /\ ~calls.running /\ ~calls.qc_runs[n].passed)
                  => calls.try_again_button
            /\ (\A i \in 1..n : ~calls.qc_runs[i].passed)
                  => (calls.reports = 0 /\ ~calls.api_payload_sent)

\* Two failing runs, the second one started by a retry, and the retry offered
\* again.
C25_Witness ==
    /\ "qc_runs" \in DOMAIN calls
    /\ Len(calls.qc_runs) = 2
    /\ ~calls.qc_runs[1].passed
    /\ ~calls.qc_runs[2].passed
    /\ calls.try_again_button
    /\ calls.reports = 0

\* ------------------------------------------------------------------------
\* Properties of the device session (checked under SpecDevice and Spec)
\* ------------------------------------------------------------------------
\* send_to_bondu is called in this step, by a QC session or by the retry
\* thread.
ReportIssued ==
    \/ \E q \in QcIds : qcs[q].pc # "sending" /\ qcs'[q].pc = "sending"
    \/ retry.pc # "sending" /\ retry'.pc = "sending"

\* C26: once a report for the current device has succeeded, no step issues
\* another report for it.
C26_NoReportAfterSuccess ==
    [][ReportIssued => hist.report # "succeeded"]_vars

\* C27: while the toy ID of a device after the first is being asked for,
\* nothing of the previous device is left: no accepted toy ID, no MAC, no
\* device name, no QC results, and api_payload_sent is false.
C27_SessionEmptyBeforeNextToyId ==
    (hist.session > 1 /\ ui.toy_id_frame) =>
        /\ app.processed_toy_id = "None"
        /\ app.physical_id = "None"
        /\ app.captured_ble_name = "None"
        /\ hist.results = <<>>
        /\ ~app.api_payload_sent

\* C28: a detector loop that was running when the stop flag was set, and has
\* not yet left its loop, still finds the flag set at its next pass.
C28_StoppedLoopTerminates ==
    \A d \in DetectorIds :
        (detectors[d].pc # "idle" /\ detectors[d].stop_requested) => scanner_stop_event

\* An exception reached the 'except Exception' handler of run w.
RunRaised(w) == "UNEXPECTED_ERROR" \in workers[w].log

\* The run boundary's part of C31: a run in which burn_efuse or
\* flash_device (its download included) raised has logged the error, has
\* ended, is not marked successfully flashed and ran no later phase.
C31_BoundaryPart(w) ==
    /\ workers[w].burn_result = "raise" =>
          (/\ RunRaised(w)
           /\ workers[w].read_results = <<>>
           /\ workers[w].flash_calls = <<>>)
    /\ RunRaised(w) =>
          (/\ workers[w].pc = "done"
           /\ workers[w].error = "exception"
           /\ ~workers[w].success
           /\ Len(workers[w].flash_calls) <= 1
           /\ ~MonitorStarted(w))

\* C31 as stated: an exception of any phase of a run, the serial monitor
\* included, is caught at the run's boundary: it is logged there, the run
\* has ended, the device is not marked successfully flashed and no later
\* phase ran.
C31_EveryPhaseCaughtAtBoundary ==
    \A w \in WorkerIds :
        /\ C31_BoundaryPart(w)
        /\ "MONITOR_OPEN_ERROR" \in workers[w].log =>
              (/\ workers[w].pc = "done"
               /\ RunRaised(w)
               /\ ~workers[w].success)

\* What the code does in the cases of C31: an exception of burn_efuse or of
\* flash_device is caught at the run's boundary, logged, and the run ends
\* not marked successfully flashed with no later phase; an exception of the
\* serial monitor is caught and logged inside serial_monitor_thread, the
\* run ends without reaching the boundary handler and stays marked
\* successfully flashed, as set before the monitor started.
C31_ExceptionEndsRun ==
    \A w \in WorkerIds :
        /\ C31_BoundaryPart(w)
        /\ "MONITOR_OPEN_ERROR" \in workers[w].log =>
              (/\ workers[w].pc = "done"
               /\ ~RunRaised(w)
               /\ workers[w].success
               /\ "FLASH_OK" \in workers[w].log)

\* A testing run whose burn_efuse raised, ended by the boundary handler.
C31_Witness ==
    \E w \in WorkerIds :
        /\ workers[w].mode = "testing"
        /\ workers[w].burn_result = "raise"
        /\ workers[w].burn_calls = 1
        /\ RunRaised(w)
        /\ workers[w].pc = "done"

\* The status of the HTTP response counts as a success: 200 or 201.
StatusOk(post) == post.kind = "response" /\ post.status_code \in {200, 201}

\* C32: every call of an inventory reporting operation of the API client,
\* update_inventory and send_to_bondu_api alike, reports success if and only
\* if the HTTP response status is 200 or 201; any other status and any
\* exception gives a failure value, and the call does not raise.
C32_SuccessIffStatus200Or201 ==
    "api_calls" \in DOMAIN calls =>
        \A i \in 1..Len(calls.api_calls) :
            /\ ~calls.api_calls[i].result.raised
            /\ calls.api_calls[i].result.value <=> StatusOk(calls.api_calls[i].post)

\* C33: whenever the serial monitor of a run leaves its loop it has closed
\* the port, logged that it stopped and returned to process_device_thread
\* without an exception reaching the run's handler, and the run has ended;
\* and a monitor whose port is no longer in the enumeration leaves its loop.
C33_MonitorLeavesLoopAndReturns ==
    /\ [][\A w \in WorkerIds :
            (workers[w].pc = "monitor" /\ workers'[w].pc # "monitor") =>
                (/\ workers'[w].pc = "done"
                 /\ "MONITOR_STOPPED" \in workers'[w].log
                 /\ "UNEXPECTED_ERROR" \notin workers'[w].log)]_vars
    /\ \A w \in WorkerIds :
          (workers[w].pc = "monitor" /\ workers[w].port \notin attached)
              ~> (workers[w].pc = "done" /\ "MONITOR_STOPPED" \in workers[w].log)

\* A run whose monitor ended after its port left the enumeration.
C33_Witness ==
    \E w \in WorkerIds :
        /\ workers[w].pc = "done"
        /\ "MONITOR_STARTED" \in workers[w].log
        /\ "MONITOR_STOPPED" \in workers[w].log
        /\ workers[w].port \notin attached

\* The moves of a QC session from one step to the next that keep the order
\* scan, connect, test command, results, disconnect; a session may end
\* early but never goes back or jumps over a step.
QcOrder ==
    { <<"scan", "connect">>, <<"scan", "end">>,
      <<"connect", "dispatch">>, <<"connect", "end">>,
      <<"dispatch", "wait">>, <<"dispatch", "disconnect">>,
      <<"wait", "display">>, <<"wait", "disconnect">>,
      <<"display", "disconnect">>, <<"display", "end">>,
      <<"disconnect", "end">> }

C35_NoApprovalWithoutReceivedResult ==
    [][\A q \in QcIds :
          (/\ qcs[q].pc = "results"
           /\ qcs'[q].pc # "results"
           /\ qcs[q].notifications = <<>>)
          => (/\ qcs'[q].pc # "sending"
              /\ ~(/\ ui.test_result_label # "APPROVED"
                   /\ ui'.test_result_label = "APPROVED"))]_vars

\* C36: at most one device_detector_worker thread is alive at any time.
C36_AtMostOneDetector ==
    Cardinality({ d \in DetectorIds : detectors[d].pc # "idle" }) <= 1

\* C37: at most one BLE QC session runs at any time.
C37_AtMostOneQcSession ==
    Cardinality({ q \in QcIds : qcs[q].pc # "idle" }) <= 1

\* Detector d polled get_esp32_port in this step.
Polled(d) ==
    /\ detectors[d].pc \in {"init", "loop"}
    /\ detectors'[d].pc = "loop"
    /\ detectors'[d].stop_requested = detectors[d].stop_requested
    /\ detectors'[d] # detectors[d]

\* C38: after every poll of the port scanner esp32_port is the path that
\* poll returned when its status was ESP32_FOUND and is empty otherwise;
\* and the port a worker is started on is the one device attached.
C38_SelectedPortIsLastPolled ==
    [][/\ \A d \in DetectorIds :
             Polled(d) =>
                esp32_port' = (IF get_esp32_port(attached).status = "ESP32_FOUND"
                               THEN detectors'[d].port ELSE NoPort)
       /\ \A w \in WorkerIds :
             (WorkerStarted(w) /\ Cardinality(attached) = 1) =>
                workers'[w].port \in attached]_vars

\* C39: flash_device puts ('show_progress',) on the log queue once, never
\* more ('hide_progress',) messages than that, and when it has ended, by a
\* return or by an exception, exactly one ('hide_progress',).
C39_ShowProgressThenOneHide ==
    "shown" \in DOMAIN calls =>
        /\ calls.hidden <= calls.shown
        /\ calls.pc # "start" => calls.shown = 1
        /\ calls.pc = "returned" => calls.hidden = 1

\* The version string is three dot-separated integers, each in 0..255.
ByteVersion(version) ==
    /\ parse_version(version) # NoneTuple
    /\ \A i \in 1..3 : parse_version(version)[i] \in 0..255

\* C40: burn_efuse called with a version string that is not three
\* dot-separated integers each in 0..255 returns false (it does not raise)
\* and leaves the eFuse block as it was; every byte of the block is in
\* 0..255.
C40_BadVersionReturnsFalse ==
    "burn" \in DOMAIN calls =>
        /\ (calls.burn # "none" /\ ~ByteVersion(calls.version)) =>
              (calls.burn = "false" /\ calls.block = BlankBlock)
        /\ \A i \in 1..Len(calls.block) : calls.block[i] \in 0..255

====
